---- MODULE Spec2Model ----
(***************************************************************************)
(* Model of the memescan core: the PairCreated event monitor               *)
(* (services/monitor.py) and the Anvil fork simulation service             *)
(* (services/simulator.py).                                                *)
(*                                                                         *)
(* SpecMonitor : one MonitorService running start(), with stop() called    *)
(*               from another task at any time.                            *)
(* SpecSim     : one SimulationService used as an async context manager.   *)
(* SpecSandboxAgents : concurrent SandboxAgent simulations (agents/         *)
(*               sandbox.py), each under the process-wide _anvil_lock.     *)
(* SpecDashboard : the dashboard's simulations (app.py): the monitor       *)
(*               callback and manual scans on one event loop.              *)
(***************************************************************************)
EXTENDS Integers, Sequences, FiniteSets, TLC

\* ------------------------------------------------------------------------
\* Bounds of the model
\* ------------------------------------------------------------------------

\* Highest block number the RPC endpoint ever reports as chain head.
MaxHead == 11

\* Highest chain head that start() reads when it initialises the cursor.
MaxInitHead == 2

\* Number of times the SimulationService is entered as a context manager.
MaxUses == 2

\* Number of concurrent tasks that each run one simulation.
MaxTasks == 3

\* ------------------------------------------------------------------------
\* Program constants
\* ------------------------------------------------------------------------

\* monitor.py:103  MAX_BLOCK_RANGE = 10
MAX_BLOCK_RANGE == 10

\* config.py:45  max_reconnect_attempts: int = 10
max_reconnect_attempts == 10

VARIABLES
    \* ---- MonitorService fields (monitor.py:45-51)
    last_block,          \* self._last_block
    reconnect_attempts,  \* self._reconnect_attempts
    shutdown_event,      \* self._shutdown_event.is_set()
    on_new_pair,         \* TRUE iff a handler was passed to the constructor
    \* ---- position and locals of the task running start()
    pc,                  \* "start" | "head" | "get_logs" | "dispatch" |
                         \* "backoff" | "sleep" | "done"
    current_block,       \* _poll_events: current_block
    from_block,          \* _poll_events: from_block
    to_block,            \* _poll_events: to_block
    logs,                \* _poll_events: logs (result of eth_getLogs)
    log_pos,             \* _poll_events: position of the for loop in logs
    \* ---- environment: the chain's PairCreated logs of the factory
    chain,
    \* ---- history of the run (observations, never read by the program)
    init_cursor,         \* value start() gave the cursor, -1 before
    invoked,             \* per log of the chain: handler invocations (0,1,2=many)
    last_call,           \* <<block, index, outcome, address, pair_address>>
                         \* of the latest handler invocation: the log, how the
                         \* handler ended and the Token it was given;
                         \* <<0, 0, "none", "", "">> before the first
    fail_streak,         \* consecutive poll cycles that raised
    streak_handler_fail, \* TRUE iff a cycle of the current streak of failing
                         \* cycles raised in _process_log, not in an RPC call
    self_shutdown,       \* TRUE once _handle_error has set the shutdown flag
    start_head,          \* the chain head when start() was entered, -1 before
    steady_head          \* the height every head read of a poll cycle
                         \* answers when the chain has come to rest and the
                         \* node answers every call; -1 when reads are free

VARIABLES
    \* ---- ScannerAgent (agents/scanner.py:26-33)
    scanner_stop         \* how the agent was last asked to stop its monitor:
                         \* "none" | "stop()" | "run(stop)"

scanVars == <<scanner_stop>>

VARIABLES
    \* ---- SimulationService fields (simulator.py:62-66)
    anvil_process,       \* self._anvil_process: 0 for None, else the node
    \* ---- the operating system: the anvil processes spawned so far
    node,                \* per node: "unborn" | "running" | "exited"
    \* ---- position and locals of the task using the service
    sim_pc,              \* see SimPcs
    kill_return,         \* caller of the running kill_anvil: "fork" | "exit"
                         \* | "body" (the code of the with block)
    uses,                \* context-manager entries so far
    simulated,           \* simulate_buy_sell was called in this with block
    raised,              \* exception that left the last call, or "none"
    loc,                 \* locals of the latest simulate_buy_sell, as they
                         \* were when it returned or raised
    sim_return,          \* where simulate_buy_sell was called from: "body"
                         \* of the with block, or "idle" | "closed" outside
    \* ---- history of the run
    results,             \* <<r>>: r is the SimulationResult the latest
                         \* simulate_buy_sell returned; <<>> when it has not
                         \* returned one
    sent,                \* transactions sent by the running simulation
    last_send            \* the latest _cast_send of the simulation: what the
                         \* CLI did and the receipt _cast_send returned

VARIABLES
    \* ---- agents/sandbox.py:19  _anvil_lock = asyncio.Lock()
    anvil_lock,          \* 0 when unlocked, else the task that holds it
    lock_waiters,        \* the tasks suspended in _anvil_lock.acquire(), FIFO
    \* ---- the tasks of the event loop that run a simulation each
    task_kind,           \* per task: "agent" (SandboxAgent._simulate_with_lock),
                         \* "on_new_pair" | "manual_scan" (app.py), "none"
    task_pc,             \* per task: see TaskPcs
    task_node            \* per task: the anvil process of its
                         \* SimulationService: "unborn" | "running" | "exited"

taskVars == <<anvil_lock, lock_waiters, task_kind, task_pc, task_node>>

simVars == <<anvil_process, node, sim_pc, kill_return, uses, simulated,
             raised, loc, sim_return, results, sent, last_send>>

monVars == <<last_block, reconnect_attempts, shutdown_event, on_new_pair, pc,
             current_block, from_block, to_block, logs, log_pos, chain,
             init_cursor, invoked, last_call, fail_streak,
             streak_handler_fail, self_shutdown, start_head, steady_head>>

Min(a, b) == IF a <= b THEN a ELSE b

\* ------------------------------------------------------------------------
\* Addresses, logs and the chain
\* ------------------------------------------------------------------------

\* config.py:33  weth_address (mixed-case checksum form, abbreviated)
weth_address == "0xC02A"

\* str.lower() on the address strings of the model
Lower(s) ==
    CASE s = "0xC02A" -> "0xc02a"
      [] s = "0xAAAA" -> "0xaaaa"
      [] s = "0xBBBB" -> "0xbbbb"
      [] OTHER -> s

\* bytes.hex() of a 32-byte topic, last 40 digits, prefixed by 0x:
\* always lower-case digits (monitor.py:135-136)
TopicAddress(topic) ==
    CASE topic = "weth" -> "0xc02a"
      [] topic = "tokA" -> "0xaaaa"
      [] topic = "tokB" -> "0xbbbb"
      [] OTHER -> "0x0000"

PAIR_CREATED_TOPIC == "PairCreated"

\* A LogReceipt of the factory. kind chooses the topics it carries.
MkLog(block, index, kind) ==
    [block |-> block, index |-> index,
     topics |-> CASE kind = "weth0" -> <<PAIR_CREATED_TOPIC, "weth", "tokA">>
                  [] kind = "nodata" -> <<PAIR_CREATED_TOPIC, "weth", "tokA">>
                  [] kind = "weth1" -> <<PAIR_CREATED_TOPIC, "tokB", "weth">>
                  [] kind = "other" -> <<PAIR_CREATED_TOPIC, "tokA", "tokB">>
                  [] OTHER          -> <<PAIR_CREATED_TOPIC>>,
     \* the ABI encoding of (pair, index), or no bytes at all
     data |-> IF kind = "nodata" THEN "" ELSE "pair"]

\* The chains the monitor is run against: each a sequence of logs in block
\* order and, within a block, in log order.
Chains ==
    { <<MkLog(1, 1, "weth0"), MkLog(1, 2, "other"), MkLog(2, 1, "weth1")>>,
      <<MkLog(2, 1, "short"), MkLog(2, 2, "nodata"), MkLog(11, 1, "weth1")>> }

\* eth_getLogs {fromBlock, toBlock, address, topics}: the factory's logs of
\* the blocks from..to, in chain order
GetLogsResult(c, from, to) ==
    SelectSeq(c, LAMBDA l : from <= l.block /\ l.block <= to)

\* What eth_blockNumber can answer in a poll cycle: a head, or an error; the
\* height the chain rests at when it has come to rest
RpcError == -1
HeadReads ==
    IF steady_head >= 0 THEN {steady_head} ELSE (0..MaxHead) \cup {RpcError}

\* Outcomes of awaiting the handler: it returns, raises an exception of a
\* type _process_log catches, or raises another Exception
HandlerOutcomes == {"ok", "ValueError", "RuntimeError"}

\* ------------------------------------------------------------------------
\* _process_log (monitor.py:128-165)
\* ------------------------------------------------------------------------

\* monitor.py:164  except (IndexError, ValueError)
Caught(exc) == exc \in {"IndexError", "ValueError"}

\* the WETH test written against the configured address as it is spelled
TargetToken_CaseSensitive(log) ==
    IF Len(log.topics) < 3 THEN "IndexError"
    ELSE LET token0 == TopicAddress(log.topics[2])
             token1 == TopicAddress(log.topics[3])
         IN  IF token0 = weth_address THEN token1
             ELSE IF token1 = weth_address THEN token0
             ELSE "skip"

\* monitor.py:131-148: the address of the non-WETH token, "IndexError" when
\* the topics are too short, "skip" when the pair has no WETH side
TargetToken(log) ==
    IF Len(log.topics) < 3 THEN "IndexError"
    ELSE LET token0 == TopicAddress(log.topics[2])
             token1 == TopicAddress(log.topics[3])
             weth   == Lower(weth_address)
         IN  IF Lower(token0) = weth THEN token1
             ELSE IF Lower(token1) = weth THEN token0
             ELSE "skip"

\* domain/models.py:56-62: Token normalises its address to lower case
TokenAddress(a) == Lower(a)

\* monitor.py:138: "0x" and the hex digits 24..63 of the data: a slice, which
\* is empty when the data is, and raises nothing
PairAddress(data) == IF data = "pair" THEN "0xpair" ELSE "0x"

\* monitor.py:161  the handler is awaited for this log
Dispatches(log) ==
    /\ TargetToken(log) \notin {"IndexError", "skip"}
    /\ on_new_pair

\* Position of a log in the chain
ChainPos(log) ==
    CHOOSE i \in 1..Len(chain) :
        chain[i].block = log.block /\ chain[i].index = log.index

\* ------------------------------------------------------------------------
\* _handle_error (monitor.py:167-189), up to its sleep
\* ------------------------------------------------------------------------

\* the ceiling test written with >= : one attempt too few
ExceedsMax_OffByOne(attempts) == attempts >= max_reconnect_attempts

\* monitor.py:173
ExceedsMax(attempts) == attempts > max_reconnect_attempts

handle_error ==
    /\ reconnect_attempts' = reconnect_attempts + 1
    /\ IF ExceedsMax(reconnect_attempts + 1)
       THEN /\ shutdown_event' = TRUE
            /\ self_shutdown' = TRUE
            /\ pc' = "sleep"
       ELSE /\ UNCHANGED <<shutdown_event, self_shutdown>>
            /\ pc' = "backoff"

\* ------------------------------------------------------------------------
\* _poll_events (monitor.py:94-126) and the loop of start (monitor.py:55-85)
\* ------------------------------------------------------------------------

\* the early return on head <= cursor left out
NoNewBlocks_Missing(head, cursor) == FALSE

\* the early return taken on head < cursor only
NoNewBlocks_Strict(head, cursor) == head < cursor

\* monitor.py:97
NoNewBlocks(head, cursor) == head <= cursor

\* monitor.py:104
FromBlock(cursor) == cursor + 1

\* the window not capped: the query runs up to the head
ToBlock_Uncapped(head, from) == head

\* monitor.py:105
ToBlock(head, from) == Min(head, from + MAX_BLOCK_RANGE - 1)

\* _poll_events has returned or raised: its locals are gone
ClearLocals ==
    /\ current_block' = 0
    /\ from_block' = 0
    /\ to_block' = 0
    /\ logs' = <<>>
    /\ log_pos' = 0

\* the cursor moved to the head instead of the window's upper bound
FinishCycle_ToHead ==
    /\ last_block' = current_block
    /\ reconnect_attempts' = 0
    /\ fail_streak' = 0
    /\ streak_handler_fail' = FALSE
    /\ pc' = "sleep"
    /\ ClearLocals

\* the reconnect counter left as it is after a successful cycle
FinishCycle_NoReset ==
    /\ last_block' = to_block
    /\ fail_streak' = 0
    /\ streak_handler_fail' = FALSE
    /\ pc' = "sleep"
    /\ ClearLocals
    /\ UNCHANGED reconnect_attempts

\* the cursor left where it was at the end of a cycle
FinishCycle_KeepsCursor ==
    /\ reconnect_attempts' = 0
    /\ fail_streak' = 0
    /\ streak_handler_fail' = FALSE
    /\ pc' = "sleep"
    /\ ClearLocals
    /\ UNCHANGED last_block

\* monitor.py:119 and monitor.py:72: the window is done, the cycle succeeded
FinishCycle ==
    /\ last_block' = to_block
    /\ reconnect_attempts' = 0
    /\ fail_streak' = 0
    /\ streak_handler_fail' = FALSE
    /\ pc' = "sleep"
    /\ ClearLocals

\* the cursor moved to the window's upper bound although the cycle raised
CycleFails_Advances(byHandler) ==
    /\ handle_error
    /\ fail_streak' = fail_streak + 1
    /\ streak_handler_fail' = (streak_handler_fail \/ byHandler)
    /\ ClearLocals
    /\ last_block' = (IF pc = "head" THEN last_block ELSE to_block)

\* monitor.py:73-74: _poll_events raised; byHandler tells whether the
\* exception came out of _process_log (the handler) or out of an RPC call
CycleFails(byHandler) ==
    /\ handle_error
    /\ fail_streak' = fail_streak + 1
    /\ streak_handler_fail' = (streak_handler_fail \/ byHandler)
    /\ ClearLocals
    /\ UNCHANGED last_block

\* monitor.py:63-67: what the initial eth_blockNumber call answers when the
\* chain head is `head`: the head, or an exception.  The failing call is
\* taken at the highest initial head only, where the blocks it makes the
\* monitor go back over are the most.
StartReads(head) ==
    IF head = MaxInitHead THEN {head, RpcError} ELSE {head}

\* a failed initial head read counted as a reconnect attempt
StartInit_CountsFailure ==
    /\ pc = "start"
    /\ \E head \in 0..MaxInitHead : \E r \in StartReads(head) :
         /\ start_head' = head
         /\ last_block' = (IF r = RpcError THEN 0 ELSE r)
         /\ init_cursor' = (IF r = RpcError THEN 0 ELSE r)
         /\ reconnect_attempts' = (IF r = RpcError
                                   THEN reconnect_attempts + 1
                                   ELSE reconnect_attempts)
    /\ pc' = (IF shutdown_event THEN "done" ELSE "head")
    /\ UNCHANGED <<shutdown_event, on_new_pair,
                   current_block, from_block, to_block, logs, log_pos, chain,
                   invoked, last_call, fail_streak,
                   streak_handler_fail, self_shutdown, steady_head>>
    /\ UNCHANGED <<simVars, taskVars, scanVars>>

\* monitor.py:63-69: the initial head read returns; the loop is entered and
\* the first _poll_events issues its head read
StartInit ==
    /\ pc = "start"
    /\ \E head \in 0..MaxInitHead : \E r \in StartReads(head) :
         /\ start_head' = head
         /\ last_block' = (IF r = RpcError THEN 0 ELSE r)
         /\ init_cursor' = (IF r = RpcError THEN 0 ELSE r)
    /\ pc' = (IF shutdown_event THEN "done" ELSE "head")
    /\ UNCHANGED <<reconnect_attempts, shutdown_event, on_new_pair,
                   current_block, from_block, to_block, logs, log_pos, chain,
                   invoked, last_call, fail_streak,
                   streak_handler_fail, self_shutdown, steady_head>>
    /\ UNCHANGED <<simVars, taskVars, scanVars>>

\* monitor.py:96-112: the head read of a poll cycle returns
PollHead ==
    /\ pc = "head"
    /\ \E r \in HeadReads :
         IF r = RpcError
         THEN CycleFails(FALSE)
         ELSE IF NoNewBlocks(r, last_block)
         THEN /\ reconnect_attempts' = 0
              /\ fail_streak' = 0
              /\ streak_handler_fail' = FALSE
              /\ pc' = "sleep"
              /\ ClearLocals
              /\ UNCHANGED <<last_block, shutdown_event, self_shutdown>>
         ELSE /\ current_block' = r
              /\ from_block' = FromBlock(last_block)
              /\ to_block' = ToBlock(r, FromBlock(last_block))
              /\ pc' = "get_logs"
              /\ UNCHANGED <<last_block, reconnect_attempts, fail_streak,
                             streak_handler_fail, shutdown_event,
                             self_shutdown, logs, log_pos>>
    /\ UNCHANGED <<on_new_pair, chain, init_cursor, invoked, last_call>>
    /\ UNCHANGED <<start_head, steady_head>>
    /\ UNCHANGED <<simVars, taskVars, scanVars>>

\* monitor.py:114-119: eth_getLogs returns (or raises)
GetLogs ==
    /\ pc = "get_logs"
    /\ \/ CycleFails(FALSE)
       \/ LET got == GetLogsResult(chain, from_block, to_block)
          IN  /\ IF got = <<>>
                 THEN FinishCycle
                 ELSE /\ logs' = got
                      /\ log_pos' = 1
                      /\ pc' = "dispatch"
                      /\ UNCHANGED <<last_block, reconnect_attempts,
                                     fail_streak, streak_handler_fail,
                                     current_block, from_block, to_block>>
              /\ UNCHANGED <<shutdown_event, self_shutdown>>
    /\ UNCHANGED <<on_new_pair, chain, init_cursor, invoked, last_call>>
    /\ UNCHANGED <<start_head, steady_head>>
    /\ UNCHANGED <<simVars, taskVars, scanVars>>

\* the loop over the fetched logs left as soon as the shutdown flag is set
NextLog_BreaksOnShutdown ==
    IF log_pos = Len(logs) \/ shutdown_event
    THEN FinishCycle
    ELSE /\ log_pos' = log_pos + 1
         /\ UNCHANGED <<last_block, reconnect_attempts, fail_streak,
                        streak_handler_fail, pc, current_block, from_block,
                        to_block, logs>>

\* monitor.py:116-119: the loop goes on to the next log, or the window is done
NextLog ==
    IF log_pos = Len(logs)
    THEN FinishCycle
    ELSE /\ log_pos' = log_pos + 1
         /\ UNCHANGED <<last_block, reconnect_attempts, fail_streak,
                        streak_handler_fail, pc, current_block, from_block,
                        to_block, logs>>

\* monitor.py:117 with monitor.py:128-165: _process_log of the next log
ProcessLog ==
    /\ pc = "dispatch"
    /\ LET log == logs[log_pos]
       IN  IF TargetToken(log) = "IndexError"
           THEN /\ IF Caught("IndexError")
                   THEN /\ NextLog
                        /\ UNCHANGED <<shutdown_event, self_shutdown>>
                   ELSE CycleFails(TRUE)
                /\ UNCHANGED <<invoked, last_call>>
           ELSE IF Dispatches(log)
           THEN \E outcome \in HandlerOutcomes :
                  /\ invoked' = [invoked EXCEPT ![ChainPos(log)] = Min(@ + 1, 2)]
                  /\ last_call' = <<log.block, log.index, outcome,
                                    TokenAddress(TargetToken(log)),
                                    TokenAddress(PairAddress(log.data))>>
                  /\ IF outcome = "ok" \/ Caught(outcome)
                     THEN /\ NextLog
                          /\ UNCHANGED <<shutdown_event, self_shutdown>>
                     ELSE CycleFails(TRUE)
           ELSE /\ NextLog
                /\ UNCHANGED <<invoked, last_call, shutdown_event,
                               self_shutdown>>
    /\ UNCHANGED <<on_new_pair, chain, init_cursor>>
    /\ UNCHANGED <<start_head, steady_head>>
    /\ UNCHANGED <<simVars, taskVars, scanVars>>

\* monitor.py:189: the backoff sleep of _handle_error ends
Backoff ==
    /\ pc = "backoff"
    /\ pc' = "sleep"
    /\ UNCHANGED <<last_block, reconnect_attempts, shutdown_event, on_new_pair,
                   current_block, from_block, to_block, logs, log_pos, chain,
                   init_cursor, invoked, last_call, fail_streak,
                   streak_handler_fail, self_shutdown>>
    /\ UNCHANGED <<start_head, steady_head>>
    /\ UNCHANGED <<simVars, taskVars, scanVars>>

\* the loop condition not tested: while True
PollSleep_LoopsForever ==
    /\ pc = "sleep"
    /\ pc' = "head"
    /\ UNCHANGED <<last_block, reconnect_attempts, shutdown_event, on_new_pair,
                   current_block, from_block, to_block, logs, log_pos, chain,
                   init_cursor, invoked, last_call, fail_streak,
                   streak_handler_fail, self_shutdown>>
    /\ UNCHANGED <<start_head, steady_head>>
    /\ UNCHANGED <<simVars, taskVars, scanVars>>

\* monitor.py:77-83 and 69: the interruptible sleep ends, the loop condition
\* is tested and the next _poll_events issues its head read
PollSleep ==
    /\ pc = "sleep"
    /\ pc' = (IF shutdown_event THEN "done" ELSE "head")
    /\ UNCHANGED <<last_block, reconnect_attempts, shutdown_event, on_new_pair,
                   current_block, from_block, to_block, logs, log_pos, chain,
                   init_cursor, invoked, last_call, fail_streak,
                   streak_handler_fail, self_shutdown>>
    /\ UNCHANGED <<start_head, steady_head>>
    /\ UNCHANGED <<simVars, taskVars, scanVars>>

\* monitor.py:87-90: stop(), called from another task
Stop ==
    /\ pc # "done"
    /\ shutdown_event' = TRUE
    /\ UNCHANGED <<last_block, reconnect_attempts, on_new_pair, pc,
                   current_block, from_block, to_block, logs, log_pos, chain,
                   init_cursor, invoked, last_call, fail_streak,
                   streak_handler_fail, self_shutdown, start_head,
                   steady_head>>
    /\ UNCHANGED <<simVars, taskVars, scanVars>>

\* monitor.py:45-51 and start() called
MonStart ==
    /\ last_block = 0
    /\ reconnect_attempts = 0
    /\ shutdown_event = FALSE
    /\ on_new_pair \in BOOLEAN
    /\ pc = "start"
    /\ current_block = 0
    /\ from_block = 0
    /\ to_block = 0
    /\ logs = <<>>
    /\ log_pos = 0
    /\ chain \in Chains
    /\ init_cursor = -1
    /\ invoked = [i \in 1..Len(chain) |-> 0]
    /\ last_call = <<0, 0, "none", "", "">>
    /\ fail_streak = 0
    /\ streak_handler_fail = FALSE
    /\ self_shutdown = FALSE
    /\ start_head = -1

\* the monitor started on a chain whose head is free to move
MonInit == MonStart /\ steady_head = -1

MonNext ==
    \/ StartInit
    \/ PollHead
    \/ GetLogs
    \/ ProcessLog
    \/ Backoff
    \/ PollSleep
    \/ Stop

\* ========================================================================
\* SimulationService (services/simulator.py)
\* ========================================================================

SimPcs == {"idle", "settle", "body", "sim_symbol", "sim_decimals",
           "sim_estimate", "sim_buy", "sim_balance", "sim_approve",
           "sim_estimate_sell", "sim_eth_before", "sim_sell", "sim_eth_after",
           "exit", "term_wait", "kill_wait", "closed"}

\* ------------------------------------------------------------------------
\* Output of the cast CLI and its parsing
\* ------------------------------------------------------------------------

\* stdout of a cast call, as _cast_call_raw returns it (simulator.py:572-615):
\* "empty" stands for "" (timeout, non-zero exit, or nothing printed),
\* "num" for a plain integer, "annotated" for "<n> [<sci>]",
\* "list" for "[<a> [..], <n> [..]]" whose last element is n, "junk" for
\* text that holds no integer.
Out(kind, n) == [kind |-> kind, n |-> n]

\* a parser that answers -1 for text holding no integer
parse_cast_uint_Flags(raw) ==
    IF raw.kind \in {"num", "annotated"} THEN raw.n ELSE -1

\* simulator.py:642-662  _parse_cast_uint
parse_cast_uint(raw) ==
    IF raw.kind \in {"num", "annotated"} THEN raw.n ELSE 0

\* an estimate that takes a missing or unparsable answer for 1
get_amounts_out_Lenient(raw) ==
    IF raw.kind = "list" THEN raw.n ELSE 1

\* simulator.py:461-480  _get_amounts_out, from the raw output: the outer
\* brackets stripped, split at commas, the last part parsed
get_amounts_out(raw) ==
    IF raw.kind = "list" THEN parse_cast_uint(Out("annotated", raw.n))
    ELSE parse_cast_uint(raw)

\* What the cast CLI did on a cast send (simulator.py:530-548): it timed out,
\* exited non-zero with some stderr, or exited zero with some stdout
SendOutcomes ==
    { [exit |-> "timeout", stderr |-> "", status |-> "", gas |-> 0],
      [exit |-> "nonzero", stderr |-> "execution reverted", status |-> "", gas |-> 0],
      [exit |-> "nonzero", stderr |-> "", status |-> "", gas |-> 0],
      [exit |-> "zero", stderr |-> "", status |-> "0x1", gas |-> 7],
      [exit |-> "zero", stderr |-> "", status |-> "0x0", gas |-> 7],
      [exit |-> "zero", stderr |-> "", status |-> "not json", gas |-> 0],
      [exit |-> "zero", stderr |-> "", status |-> "0x0", gas |-> -1],
      [exit |-> "zero", stderr |-> "", status |-> "0x1", gas |-> -1] }
        \* gas -1: the receipt's gasUsed is not a hex number

\* no cast send yet
NoSend ==
    [outcome |-> [exit |-> "none", stderr |-> "", status |-> "", gas |-> 0],
     receipt |-> [success |-> FALSE, gas_used |-> 0, revert_reason |-> "None"]]

\* simulator.py:664-671  _extract_revert_reason: the first line with
\* "revert" or "error", else None
extract_revert_reason(stderr) ==
    IF stderr = "execution reverted" THEN stderr ELSE "None"

\* a timed-out cast send taken for a transaction that went through
cast_send_TimeoutSucceeds(o) ==
    IF o.exit = "timeout" \/ (o.exit = "zero" /\ o.status = "0x1" /\ o.gas >= 0)
    THEN [success |-> TRUE, gas_used |-> o.gas, revert_reason |-> "None"]
    ELSE [success |-> FALSE, gas_used |-> 0, revert_reason |-> "failed"]

\* simulator.py:540-570  _cast_send, from what the CLI did
cast_send(o) ==
    IF o.exit = "timeout"
    THEN [success |-> FALSE, gas_used |-> 0, revert_reason |-> "cast send timeout"]
    ELSE IF o.exit = "nonzero"
    THEN [success |-> FALSE, gas_used |-> 0,
          revert_reason |-> IF extract_revert_reason(o.stderr) # "None"
                            THEN extract_revert_reason(o.stderr)
                            ELSE o.stderr]
    ELSE IF o.status = "not json" \/ o.gas < 0
    THEN [success |-> TRUE, gas_used |-> 0, revert_reason |-> "None"]
    ELSE IF o.status # "0x1"
    THEN [success |-> FALSE, gas_used |-> o.gas,
          revert_reason |-> "status=0x0"]
    ELSE [success |-> TRUE, gas_used |-> o.gas, revert_reason |-> "None"]

\* ------------------------------------------------------------------------
\* SimulationResult (domain/models.py:71-91) and the results of
\* simulate_buy_sell (simulator.py:172-381)
\* ------------------------------------------------------------------------

\* domain/models.py:75-83: the defaults of the fields
DefaultResult ==
    [can_buy |-> FALSE, can_sell |-> FALSE, buy_tax_pct |-> 0,
     sell_tax_pct |-> 0, buy_gas |-> 0, sell_gas |-> 0, is_honeypot |-> FALSE,
     revert_reason |-> "None", error_message |-> "None", path |-> "none"]

\* domain/models.py:77-80: the constraints pydantic validates when a
\* SimulationResult is constructed
ValidResult(r) ==
    /\ 0 <= r.buy_tax_pct /\ r.buy_tax_pct <= 100
    /\ 0 <= r.sell_tax_pct /\ r.sell_tax_pct <= 100
    /\ r.buy_gas >= 0
    /\ r.sell_gas >= 0

\* simulator.py:222-225
EstimateFailedResult ==
    [DefaultResult EXCEPT !.error_message = "getAmountsOut failed",
                          !.path = "estimate_failed"]

\* simulator.py:247-251
BuyFailedResult(reason) ==
    [DefaultResult EXCEPT !.can_buy = FALSE, !.revert_reason = reason,
                          !.path = "buy_failed"]

\* the zero-balance result built with the verdict left at its default
ZeroBalanceResult_NoVerdict(gas) ==
    [DefaultResult EXCEPT !.can_buy = TRUE, !.can_sell = FALSE,
                          !.buy_gas = gas,
                          !.buy_tax_pct = 100,
                          !.revert_reason = "balance 0 after buy",
                          !.path = "zero_balance"]

\* simulator.py:271-279
ZeroBalanceResult(gas) ==
    [DefaultResult EXCEPT !.can_buy = TRUE, !.can_sell = FALSE,
                          !.is_honeypot = TRUE, !.buy_gas = gas,
                          !.buy_tax_pct = 100,
                          !.revert_reason = "balance 0 after buy",
                          !.path = "zero_balance"]

\* simulator.py:303-311
ApproveFailedResult(gas, tax) ==
    [DefaultResult EXCEPT !.can_buy = TRUE, !.can_sell = FALSE,
                          !.is_honeypot = TRUE, !.buy_gas = gas,
                          !.buy_tax_pct = tax,
                          !.revert_reason = "approve rejected",
                          !.path = "approve_failed"]

\* the sell-failure result built without the buy tax
SellFailedResult_NoTax(gas, tax, reason) ==
    [DefaultResult EXCEPT !.can_buy = TRUE, !.can_sell = FALSE,
                          !.is_honeypot = TRUE, !.buy_gas = gas,
                          !.revert_reason = reason,
                          !.path = "sell_failed"]

\* simulator.py:340-348
SellFailedResult(gas, tax, reason) ==
    [DefaultResult EXCEPT !.can_buy = TRUE, !.can_sell = FALSE,
                          !.is_honeypot = TRUE, !.buy_gas = gas,
                          !.buy_tax_pct = tax, !.revert_reason = reason,
                          !.path = "sell_failed"]

\* the verdict taken from the buy alone
IsHoneypot_BuyOnly(can_buy, can_sell) == can_buy

\* simulator.py:368
IsHoneypot(can_buy, can_sell) == can_buy /\ ~can_sell

\* the final result with can_sell taken from the absence of a revert reason
FinalResult_SellAssumed(l) ==
    [can_buy |-> l.can_buy, can_sell |-> l.revert_reason = "None",
     buy_tax_pct |-> Min(l.buy_tax_pct, 100),
     sell_tax_pct |-> Min(l.sell_tax_pct, 100),
     buy_gas |-> l.buy_gas, sell_gas |-> l.sell_gas,
     is_honeypot |-> IsHoneypot(l.can_buy, l.can_sell),
     revert_reason |-> l.revert_reason, error_message |-> l.error_message,
     path |-> "final"]

\* simulator.py:370-381
FinalResult(l) ==
    [can_buy |-> l.can_buy, can_sell |-> l.can_sell,
     buy_tax_pct |-> Min(l.buy_tax_pct, 100),
     sell_tax_pct |-> Min(l.sell_tax_pct, 100),
     buy_gas |-> l.buy_gas, sell_gas |-> l.sell_gas,
     is_honeypot |-> IsHoneypot(l.can_buy, l.can_sell),
     revert_reason |-> l.revert_reason, error_message |-> l.error_message,
     path |-> "final"]

\* the tax without max(0.0, ...): negative when more arrives than expected
TaxPct_NoFloor(expected, actual) ==
    IF expected - actual <= 0
    THEN -(((actual - expected) * 100) \div expected)
    ELSE ((expected - actual) * 100) \div expected

\* simulator.py:266 and 361: max(0.0, (expected - actual) / expected * 100),
\* in whole per cent
TaxPct(expected, actual) ==
    IF expected - actual <= 0 THEN 0
    ELSE ((expected - actual) * 100) \div expected

\* simulator.py:190-197; balance_out is the output local of
\* _get_token_balance (simulator.py:396) and amounts_out that of
\* _get_amounts_out for the buy (simulator.py:455), "unread" before the probe
InitLocals ==
    [can_buy |-> FALSE, can_sell |-> FALSE, buy_gas |-> 0, sell_gas |-> 0,
     buy_tax_pct |-> 0, sell_tax_pct |-> 0, revert_reason |-> "None",
     error_message |-> "None", expected_tokens |-> 0, actual_tokens |-> 0,
     expected_eth |-> 0, eth_before |-> 0, eth_after |-> 0,
     balance_out |-> "unread", amounts_out |-> Out("unread", 0)]

\* simulator.py:265-266: the buy tax after the balance read; old is the
\* value the local had
BuyTax(expected_tokens, actual_tokens, old) ==
    IF expected_tokens > 0 /\ actual_tokens >= 0
    THEN TaxPct(expected_tokens, actual_tokens)
    ELSE old

\* simulator.py:360-361: the sell tax after the second balance read
SellTax(expected_eth, actual_eth_received, old) ==
    IF expected_eth > 0 /\ actual_eth_received >= 0
    THEN TaxPct(expected_eth, actual_eth_received)
    ELSE old

\* What the probes of one simulation can print
AmountsOutBuy  == {Out("empty", 0), Out("list", 0), Out("list", 1000)}
BalanceOutputs == {Out("empty", 0), Out("num", 0), Out("num", 950),
                   Out("annotated", 1200), Out("junk", 0)}
AmountsOutSell == {Out("empty", 0), Out("list", 100)}
EthBefore      == {0, 1000}
EthAfter       == {900, 1000, 1095, 1200}

\* ------------------------------------------------------------------------
\* kill_anvil (simulator.py:138-152)
\* ------------------------------------------------------------------------

\* simulator.py:100-130: fork_mainnet from the lookup of the anvil binary to
\* its sleep: the binary is missing or the spawn fails, or node n is spawned
ForkSpawn(n) ==
    \/ /\ sim_pc' = "closed"
       /\ raised' \in {"AnvilProcessError", "OSError"}
       /\ anvil_process' = 0
       /\ UNCHANGED node
    \/ /\ node' = [node EXCEPT ![n] = "running"]
       /\ anvil_process' = n                           \* simulator.py:123
       /\ sim_pc' = "settle"
       /\ raised' = "none"

\* where control goes when kill_anvil is left: back into the with block, out
\* of it with the exception (to __aexit__), or out of the context manager
AfterKill(caller, exc) ==
    IF caller = "body" THEN (IF exc = "none" THEN "body" ELSE "exit")
    ELSE "closed"

\* the handle kept when kill_anvil is left
KillReturns_KeepsHandle(caller, exc, n) ==
    IF caller = "fork" /\ exc = "none"
    THEN ForkSpawn(n)
    ELSE /\ sim_pc' = AfterKill(caller, exc)
         /\ raised' = (IF exc # "none" THEN exc ELSE raised)
         /\ UNCHANGED <<anvil_process, node>>

\* simulator.py:151-152: kill_anvil drops the handle and returns (raising
\* exc, or "none") to its caller: to fork_mainnet at simulator.py:98, which
\* goes on to spawn node n, to __aexit__, which ends the with block, or to
\* the code of the with block
KillReturns(caller, exc, n) ==
    IF caller = "fork" /\ exc = "none"
    THEN ForkSpawn(n)
    ELSE /\ sim_pc' = AfterKill(caller, exc)
         /\ raised' = (IF exc # "none" THEN exc ELSE raised)
         /\ anvil_process' = 0
         /\ UNCHANGED node

\* terminate() not followed by a wait for the process to exit
KillBegins_NoWait(caller, n) ==
    /\ kill_return' = caller
    /\ KillReturns(caller, "none", n)

\* simulator.py:140-145: kill_anvil begins, the handle being set
KillBegins(caller, n) ==
    /\ kill_return' = caller
    /\ IF node[anvil_process] = "running"
       THEN /\ sim_pc' = "term_wait"       \* SIGTERM sent, wait_for(wait())
            /\ UNCHANGED <<anvil_process, node, raised>>
       ELSE \* the process has exited: terminate() is a no-op and wait()
            \* returns at once, or terminate() raises ProcessLookupError
            \E exc \in {"none", "ProcessLookupError"} :
                KillReturns(caller, exc, n)

\* simulator.py:145-146, 151-152: the node exited within the 5 s wait
TermWaitReturns ==
    /\ sim_pc = "term_wait"
    /\ node[anvil_process] = "exited"
    /\ KillReturns(kill_return, "none", uses)
    /\ UNCHANGED <<kill_return, uses, simulated, loc, results, sent>>
    /\ UNCHANGED <<sim_return, last_send>>
    /\ UNCHANGED <<monVars, taskVars, scanVars>>

\* simulator.py:147-150: the 5 s wait timed out: kill(), then wait()
TermWaitTimeout ==
    /\ sim_pc = "term_wait"
    /\ node[anvil_process] = "running"
    /\ sim_pc' = "kill_wait"
    /\ UNCHANGED <<anvil_process, node, kill_return, uses, simulated, raised,
                   loc, results, sent>>
    /\ UNCHANGED <<sim_return, last_send>>
    /\ UNCHANGED <<monVars, taskVars, scanVars>>

\* simulator.py:150-152: the killed node has exited
KillWaitReturns ==
    /\ sim_pc = "kill_wait"
    /\ node[anvil_process] = "exited"
    /\ KillReturns(kill_return, "none", uses)
    /\ UNCHANGED <<kill_return, uses, simulated, loc, results, sent>>
    /\ UNCHANGED <<sim_return, last_send>>
    /\ UNCHANGED <<monVars, taskVars, scanVars>>

\* The operating system: a running anvil exits (on a signal, or by itself)
NodeExits ==
    /\ \E p \in 1..MaxUses :
         /\ node[p] = "running"
         /\ node' = [node EXCEPT ![p] = "exited"]
    /\ UNCHANGED <<anvil_process, sim_pc, kill_return, uses, simulated,
                   raised, loc, results, sent>>
    /\ UNCHANGED <<sim_return, last_send>>
    /\ UNCHANGED <<monVars, taskVars, scanVars>>

\* ------------------------------------------------------------------------
\* __aenter__ / fork_mainnet (simulator.py:78-80, 87-136)
\* ------------------------------------------------------------------------

\* async with SimulationService(): __aenter__ calls fork_mainnet, which runs
\* up to its first await
Enter ==
    /\ sim_pc \in {"idle", "closed"}
    /\ uses < MaxUses
    /\ uses' = uses + 1
    /\ simulated' = FALSE
    /\ IF anvil_process # 0
       THEN KillBegins("fork", uses + 1)               \* simulator.py:96-98
       ELSE /\ UNCHANGED kill_return
            /\ ForkSpawn(uses + 1)
    /\ UNCHANGED <<loc, results, sent>>
    /\ UNCHANGED <<sim_return, last_send>>
    /\ UNCHANGED <<monVars, taskVars, scanVars>>

\* the settle check dropping the handle of a node found dead
SettleDone_ClearsHandle ==
    /\ sim_pc = "settle"
    /\ IF node[anvil_process] = "exited"
       THEN /\ sim_pc' = "closed"
            /\ raised' = "AnvilProcessError"
            /\ anvil_process' = 0
       ELSE /\ sim_pc' = "body"
            /\ raised' = "none"
            /\ UNCHANGED anvil_process
    /\ UNCHANGED <<node, kill_return, uses, simulated, loc, results, sent>>
    /\ UNCHANGED <<sim_return, last_send>>
    /\ UNCHANGED <<monVars, taskVars, scanVars>>

\* simulator.py:130-136: the settle sleep is over
SettleDone ==
    /\ sim_pc = "settle"
    /\ IF node[anvil_process] = "exited"
       THEN /\ sim_pc' = "closed"           \* simulator.py:132-134
            /\ raised' = "AnvilProcessError"
       ELSE /\ sim_pc' = "body"
            /\ raised' = "none"
    /\ UNCHANGED <<anvil_process, node, kill_return, uses, simulated, loc,
                   results, sent>>
    /\ UNCHANGED <<sim_return, last_send>>
    /\ UNCHANGED <<monVars, taskVars, scanVars>>

\* simulator.py:130: the task is cancelled while fork_mainnet sleeps;
\* CancelledError leaves __aenter__, so __aexit__ is not called
SettleCancelled ==
    /\ sim_pc = "settle"
    /\ sim_pc' = "closed"
    /\ raised' = "CancelledError"
    /\ UNCHANGED <<anvil_process, node, kill_return, uses, simulated, loc,
                   results, sent>>
    /\ UNCHANGED <<sim_return, last_send>>
    /\ UNCHANGED <<monVars, taskVars, scanVars>>

\* ------------------------------------------------------------------------
\* The body of the with block and __aexit__ (simulator.py:82-83)
\* ------------------------------------------------------------------------

\* simulator.py:181-204: simulate_buy_sell is called, inside the with block
\* or on a service that is not entered, and issues its first probe
SimulateBegins ==
    /\ sim_pc \in {"body", "idle", "closed"}
    /\ ~simulated
    /\ simulated' = TRUE
    /\ sim_return' = sim_pc
    /\ IF anvil_process = 0
       THEN /\ raised' = "AnvilProcessError"          \* simulator.py:181-182
            /\ sim_pc' = (IF sim_pc = "body" THEN "exit" ELSE sim_pc)
            /\ UNCHANGED loc
       ELSE /\ loc' = InitLocals
            /\ sim_pc' = "sim_symbol"
            /\ raised' = "none"
    /\ results' = <<>>
    /\ sent' = <<>>
    /\ last_send' = NoSend
    /\ UNCHANGED <<anvil_process, node, kill_return, uses>>
    /\ UNCHANGED <<monVars, taskVars, scanVars>>

\* the block ends, normally or by an exception of its own
BodyEnds ==
    /\ sim_pc = "body"
    /\ raised' \in {"none", "RuntimeError"}
    /\ sim_pc' = "exit"
    /\ UNCHANGED <<anvil_process, node, kill_return, uses, simulated, loc,
                   results, sent>>
    /\ UNCHANGED <<sim_return, last_send>>
    /\ UNCHANGED <<monVars, taskVars, scanVars>>

\* simulator.py:138-152: the code of the with block calls kill_anvil itself
KillAnvil ==
    /\ sim_pc = "body"
    /\ IF anvil_process = 0
       THEN UNCHANGED <<anvil_process, node, sim_pc, raised, kill_return>>
                                                       \* simulator.py:140-141
       ELSE KillBegins("body", uses)
    /\ UNCHANGED <<uses, simulated, loc, results, sent>>
    /\ UNCHANGED <<sim_return, last_send>>
    /\ UNCHANGED <<monVars, taskVars, scanVars>>

\* simulator.py:82-83: __aexit__ calls kill_anvil
Exit ==
    /\ sim_pc = "exit"
    /\ IF anvil_process = 0
       THEN /\ sim_pc' = "closed"                      \* simulator.py:140-141
            /\ UNCHANGED <<anvil_process, node, raised, kill_return>>
       ELSE KillBegins("exit", uses)
    /\ UNCHANGED <<uses, simulated, loc, results, sent>>
    /\ UNCHANGED <<sim_return, last_send>>
    /\ UNCHANGED <<monVars, taskVars, scanVars>>

\* ------------------------------------------------------------------------
\* simulate_buy_sell (simulator.py:172-381), one action per await
\* ------------------------------------------------------------------------

\* the exception re-raised instead of being turned into a result
SimExcept_Reraises(l) ==
    /\ results' = <<>>
    /\ sim_pc' = sim_return

\* the except clause answering with a bare error result
SimExcept_BareError(l) ==
    /\ results' = <<[DefaultResult EXCEPT !.error_message = "exception",
                                          !.path = "final"]>>
    /\ sim_pc' = sim_return

\* simulator.py:364-381: an Exception was raised inside the try block
SimExcept(l) ==
    /\ results' = <<FinalResult([l EXCEPT !.error_message = "exception"])>>
    /\ sim_pc' = sim_return

\* simulate_buy_sell returns r
SimReturns(r) ==
    /\ results' = <<r>>
    /\ sim_pc' = sim_return

\* simulator.py:203-204, 406-419: the symbol() and decimals() probes
SimMeta ==
    /\ sim_pc \in {"sim_symbol", "sim_decimals"}
    /\ \/ /\ sim_pc' = (IF sim_pc = "sim_symbol" THEN "sim_decimals"
                        ELSE "sim_estimate")
          /\ UNCHANGED results
       \/ SimExcept(loc)                    \* cast missing, spawn error
    /\ UNCHANGED <<anvil_process, node, kill_return, uses, simulated, raised,
                   loc, sim_return, sent, last_send>>
    /\ UNCHANGED <<monVars, taskVars, scanVars>>

\* simulator.py:215-226: getAmountsOut for the buy
SimEstimate ==
    /\ sim_pc = "sim_estimate"
    /\ \/ \E raw \in AmountsOutBuy :
            LET expected_tokens == get_amounts_out(raw)
            IN  /\ loc' = [loc EXCEPT !.expected_tokens = expected_tokens,
                                      !.amounts_out = raw]
                /\ IF expected_tokens = 0
                   THEN /\ SimReturns(EstimateFailedResult)
                        /\ UNCHANGED sent
                   ELSE /\ sim_pc' = "sim_buy"
                        /\ sent' = Append(sent, "buy")    \* simulator.py:234
                        /\ UNCHANGED results
       \/ /\ SimExcept(loc)
          /\ UNCHANGED <<loc, sent>>
    /\ UNCHANGED <<anvil_process, node, kill_return, uses, simulated, raised,
                   sim_return, last_send>>
    /\ UNCHANGED <<monVars, taskVars, scanVars>>

\* simulator.py:234-255: the buy transaction
SimBuy ==
    /\ sim_pc = "sim_buy"
    /\ \/ \E o \in SendOutcomes :
            LET buy_receipt == cast_send(o)
            IN  /\ last_send' = [outcome |-> o, receipt |-> buy_receipt]
                /\ IF ~buy_receipt.success
                   THEN /\ SimReturns(BuyFailedResult(buy_receipt.revert_reason))
                        /\ UNCHANGED loc
                   ELSE /\ loc' = [loc EXCEPT !.can_buy = TRUE,
                                              !.buy_gas = buy_receipt.gas_used]
                        /\ sim_pc' = "sim_balance"
                        /\ UNCHANGED results
       \/ /\ SimExcept(loc)
          /\ UNCHANGED <<loc, last_send>>
    /\ UNCHANGED <<anvil_process, node, kill_return, uses, simulated, raised,
                   sim_return, sent>>
    /\ UNCHANGED <<monVars, taskVars, scanVars>>

\* simulator.py:262-299: balanceOf, the buy tax, the zero-balance verdict
SimBalance ==
    /\ sim_pc = "sim_balance"
    /\ \/ \E raw \in BalanceOutputs :
            LET actual_tokens == parse_cast_uint(raw)
                tax == BuyTax(loc.expected_tokens, actual_tokens,
                              loc.buy_tax_pct)
            IN  /\ loc' = [loc EXCEPT !.actual_tokens = actual_tokens,
                                      !.buy_tax_pct = tax,
                                      !.balance_out = raw.kind]
                /\ IF actual_tokens = 0
                   THEN /\ SimReturns(ZeroBalanceResult(loc.buy_gas))
                        /\ UNCHANGED sent
                   ELSE /\ sim_pc' = "sim_approve"
                        /\ sent' = Append(sent, "approve")  \* simulator.py:292
                        /\ UNCHANGED results
       \/ /\ SimExcept(loc)
          /\ UNCHANGED <<loc, sent>>
    /\ UNCHANGED <<anvil_process, node, kill_return, uses, simulated, raised,
                   sim_return, last_send>>
    /\ UNCHANGED <<monVars, taskVars, scanVars>>

\* simulator.py:292-321: the approve transaction
SimApprove ==
    /\ sim_pc = "sim_approve"
    /\ \/ \E o \in SendOutcomes :
            LET approve_receipt == cast_send(o)
            IN  /\ last_send' = [outcome |-> o, receipt |-> approve_receipt]
                /\ IF ~approve_receipt.success
                   THEN SimReturns(ApproveFailedResult(loc.buy_gas,
                                                       loc.buy_tax_pct))
                   ELSE /\ sim_pc' = "sim_estimate_sell"
                        /\ UNCHANGED results
       \/ /\ SimExcept(loc)
          /\ UNCHANGED last_send
    /\ UNCHANGED <<anvil_process, node, kill_return, uses, simulated, raised,
                   loc, sim_return, sent>>
    /\ UNCHANGED <<monVars, taskVars, scanVars>>

\* simulator.py:316-325: getAmountsOut for the sell
SimEstimateSell ==
    /\ sim_pc = "sim_estimate_sell"
    /\ \/ \E raw \in AmountsOutSell :
            /\ loc' = [loc EXCEPT !.expected_eth = get_amounts_out(raw)]
            /\ sim_pc' = "sim_eth_before"
            /\ UNCHANGED results
       \/ /\ SimExcept(loc)
          /\ UNCHANGED loc
    /\ UNCHANGED <<anvil_process, node, kill_return, uses, simulated, raised,
                   sim_return, sent, last_send>>
    /\ UNCHANGED <<monVars, taskVars, scanVars>>

\* simulator.py:325-335, 421-436: the ETH balance before the sell
SimEthBefore ==
    /\ sim_pc = "sim_eth_before"
    /\ \/ \E b \in EthBefore :
            /\ loc' = [loc EXCEPT !.eth_before = b]
            /\ sim_pc' = "sim_sell"
            /\ sent' = Append(sent, "sell")            \* simulator.py:328
            /\ UNCHANGED results
       \/ /\ SimExcept(loc)                           \* the probe timed out
          /\ UNCHANGED <<loc, sent>>
    /\ UNCHANGED <<anvil_process, node, kill_return, uses, simulated, raised,
                   sim_return, last_send>>
    /\ UNCHANGED <<monVars, taskVars, scanVars>>

\* simulator.py:328-355: the sell transaction
SimSell ==
    /\ sim_pc = "sim_sell"
    /\ \/ \E o \in SendOutcomes :
            LET sell_receipt == cast_send(o)
            IN  /\ last_send' = [outcome |-> o, receipt |-> sell_receipt]
                /\ IF ~sell_receipt.success
                   THEN /\ SimReturns(SellFailedResult(loc.buy_gas,
                                                       loc.buy_tax_pct,
                                                       sell_receipt.revert_reason))
                        /\ UNCHANGED loc
                   ELSE /\ loc' = [loc EXCEPT !.can_sell = TRUE,
                                              !.sell_gas = sell_receipt.gas_used]
                        /\ sim_pc' = "sim_eth_after"
                        /\ UNCHANGED results
       \/ /\ SimExcept(loc)
          /\ UNCHANGED <<loc, last_send>>
    /\ UNCHANGED <<anvil_process, node, kill_return, uses, simulated, raised,
                   sim_return, sent>>
    /\ UNCHANGED <<monVars, taskVars, scanVars>>

\* simulator.py:355-381: the ETH balance after the sell, the sell tax, the
\* final result
SimEthAfter ==
    /\ sim_pc = "sim_eth_after"
    /\ \/ \E a \in EthAfter :
            LET actual_eth_received == a - loc.eth_before
                tax == SellTax(loc.expected_eth, actual_eth_received,
                               loc.sell_tax_pct)
            IN  /\ loc' = [loc EXCEPT !.eth_after = a, !.sell_tax_pct = tax]
                /\ SimReturns(FinalResult([loc EXCEPT !.sell_tax_pct = tax]))
       \/ /\ SimExcept(loc)
          /\ UNCHANGED loc
    /\ UNCHANGED <<anvil_process, node, kill_return, uses, simulated, raised,
                   sim_return, sent, last_send>>
    /\ UNCHANGED <<monVars, taskVars, scanVars>>

\* the task is cancelled while simulate_buy_sell awaits a probe:
\* CancelledError is no Exception, it leaves simulate_buy_sell and the block
SimCancelled ==
    /\ sim_pc \in {"sim_symbol", "sim_decimals", "sim_estimate", "sim_buy",
                   "sim_balance", "sim_approve", "sim_estimate_sell",
                   "sim_eth_before", "sim_sell", "sim_eth_after"}
    /\ raised' = "CancelledError"
    /\ sim_pc' = (IF sim_return = "body" THEN "exit" ELSE sim_return)
    /\ UNCHANGED <<anvil_process, node, kill_return, uses, simulated, loc,
                   sim_return, results, sent, last_send>>
    /\ UNCHANGED <<monVars, taskVars, scanVars>>

\* simulator.py:62-66: a fresh SimulationService
SimInit ==
    /\ anvil_process = 0
    /\ node = [p \in 1..MaxUses |-> "unborn"]
    /\ sim_pc = "idle"
    /\ kill_return = "exit"
    /\ uses = 0
    /\ simulated = FALSE
    /\ raised = "none"
    /\ loc = InitLocals
    /\ sim_return = "body"
    /\ results = <<>>
    /\ sent = <<>>
    /\ last_send = NoSend

SimNext ==
    \/ Enter
    \/ SettleDone
    \/ SettleCancelled
    \/ SimulateBegins
    \/ BodyEnds
    \/ KillAnvil
    \/ Exit
    \/ TermWaitReturns
    \/ TermWaitTimeout
    \/ KillWaitReturns
    \/ NodeExits
    \/ SimMeta
    \/ SimEstimate
    \/ SimBuy
    \/ SimBalance
    \/ SimApprove
    \/ SimEstimateSell
    \/ SimEthBefore
    \/ SimSell
    \/ SimEthAfter
    \/ SimCancelled

\* ========================================================================
\* Concurrent simulations: SandboxAgent (agents/sandbox.py:87-97) and the
\* dashboard (app.py:148-192). Every task constructs its own
\* SimulationService; all of them launch anvil on the one fixed port.
\* ========================================================================

Tasks == 1..MaxTasks

TaskPcs == {"idle", "waiting", "settle", "simulate", "term_wait",
            "kill_wait", "done"}

\* asyncio.Lock.release(), reached when `async with _anvil_lock` is left by
\* a return or an exception; a task of the dashboard holds no lock
ReleaseLock(t) ==
    anvil_lock' = (IF anvil_lock = t THEN 0 ELSE anvil_lock)

\* The simulation of task t is over: it returned, or raised an exception
\* that the task's `except Exception` caught or that ended the task
TaskEnds(t) ==
    /\ task_pc' = [task_pc EXCEPT ![t] = "done"]
    /\ ReleaseLock(t)

\* simulator.py:78-80, 100-130: `async with SimulationService()` is entered:
\* __aenter__ runs fork_mainnet on the fresh service up to its sleep. The
\* anvil binary is missing or the spawn fails (the exception ends the
\* simulation; a lock just taken is released), or the node is launched.
\* holds: the task has the lock
TaskForks(t, holds) ==
    \/ /\ task_pc' = [task_pc EXCEPT ![t] = "done"]
       /\ anvil_lock' = (IF holds THEN 0 ELSE anvil_lock)
       /\ UNCHANGED task_node
    \/ /\ task_node' = [task_node EXCEPT ![t] = "running"]
       /\ task_pc' = [task_pc EXCEPT ![t] = "settle"]
       /\ anvil_lock' = (IF holds THEN t ELSE anvil_lock)

\* sandbox.py:91-93: _simulate_with_lock is called. asyncio.Lock.acquire()
\* returns at once when the lock is free and nobody waits; else the task
\* is queued
AgentCalls ==
    \E t \in Tasks :
        /\ task_kind[t] = "agent"
        /\ task_pc[t] = "idle"
        /\ IF anvil_lock = 0 /\ lock_waiters = <<>>
           THEN /\ TaskForks(t, TRUE)
                /\ UNCHANGED lock_waiters
           ELSE /\ lock_waiters' = Append(lock_waiters, t)
                /\ task_pc' = [task_pc EXCEPT ![t] = "waiting"]
                /\ UNCHANGED <<anvil_lock, task_node>>
        /\ UNCHANGED task_kind
        /\ UNCHANGED <<monVars, simVars, scanVars>>

\* sandbox.py:91-93: the lock was released and the first waiter, woken up,
\* takes it and enters the service
AgentAcquires ==
    \E t \in Tasks :
        /\ task_pc[t] = "waiting"
        /\ anvil_lock = 0
        /\ Head(lock_waiters) = t
        /\ lock_waiters' = Tail(lock_waiters)
        /\ TaskForks(t, TRUE)
        /\ UNCHANGED task_kind
        /\ UNCHANGED <<monVars, simVars, scanVars>>

\* sandbox.py:91: the task is cancelled while it waits for the lock
AgentWaitCancelled ==
    \E t \in Tasks :
        /\ task_pc[t] = "waiting"
        /\ lock_waiters' = SelectSeq(lock_waiters, LAMBDA w : w # t)
        /\ task_pc' = [task_pc EXCEPT ![t] = "done"]
        /\ UNCHANGED <<anvil_lock, task_kind, task_node>>
        /\ UNCHANGED <<monVars, simVars, scanVars>>

\* app.py:160 and app.py:183: _on_new_pair or _manual_scan enters the
\* service; no lock is taken
DashboardCalls ==
    \E t \in Tasks :
        /\ task_kind[t] \in {"on_new_pair", "manual_scan"}
        /\ task_pc[t] = "idle"
        /\ TaskForks(t, FALSE)
        /\ UNCHANGED <<lock_waiters, task_kind>>
        /\ UNCHANGED <<monVars, simVars, scanVars>>

\* simulator.py:130-136 and what follows __aenter__: the settle sleep is
\* over. The node has exited: AnvilProcessError leaves __aenter__ (no
\* __aexit__). Else the body runs: in the agent, sandbox.py:94 calls
\* simulate_buy_sell(token, amount), one argument too many: TypeError at
\* once, __aexit__, kill_anvil sends SIGTERM and waits; in the dashboard the
\* simulation starts
TaskSettleDone ==
    \E t \in Tasks :
        /\ task_pc[t] = "settle"
        /\ IF task_node[t] = "exited"
           THEN TaskEnds(t)
           ELSE /\ task_pc' = [task_pc EXCEPT ![t] =
                       IF task_kind[t] = "agent" THEN "term_wait"
                       ELSE "simulate"]
                /\ UNCHANGED anvil_lock
        /\ UNCHANGED <<lock_waiters, task_kind, task_node>>
        /\ UNCHANGED <<monVars, simVars, scanVars>>

\* simulator.py:130: the task is cancelled in the settle sleep;
\* CancelledError leaves __aenter__ (no __aexit__), passes the task's
\* `except Exception` and leaves `async with _anvil_lock`
TaskSettleCancelled ==
    \E t \in Tasks :
        /\ task_pc[t] = "settle"
        /\ TaskEnds(t)
        /\ UNCHANGED <<lock_waiters, task_kind, task_node>>
        /\ UNCHANGED <<monVars, simVars, scanVars>>

\* app.py:161 and 184 with simulator.py:82-83, 138-146: simulate_buy_sell
\* returns, raises or is cancelled; __aexit__ calls kill_anvil, which sends
\* SIGTERM and waits (on a node that has exited the wait returns at once, or
\* terminate() raises ProcessLookupError)
TaskSimulateEnds ==
    \E t \in Tasks :
        /\ task_pc[t] = "simulate"
        /\ IF task_node[t] = "running"
           THEN /\ task_pc' = [task_pc EXCEPT ![t] = "term_wait"]
                /\ UNCHANGED anvil_lock
           ELSE TaskEnds(t)
        /\ UNCHANGED <<lock_waiters, task_kind, task_node>>
        /\ UNCHANGED <<monVars, simVars, scanVars>>

\* simulator.py:145-146, 151-152: the node exited within the 5 s wait;
\* kill_anvil and __aexit__ return
TaskTermWaitReturns ==
    \E t \in Tasks :
        /\ task_pc[t] = "term_wait"
        /\ task_node[t] = "exited"
        /\ TaskEnds(t)
        /\ UNCHANGED <<lock_waiters, task_kind, task_node>>
        /\ UNCHANGED <<monVars, simVars, scanVars>>

\* simulator.py:147-150: the 5 s wait timed out: kill(), then wait()
TaskTermWaitTimeout ==
    \E t \in Tasks :
        /\ task_pc[t] = "term_wait"
        /\ task_node[t] = "running"
        /\ task_pc' = [task_pc EXCEPT ![t] = "kill_wait"]
        /\ UNCHANGED <<anvil_lock, lock_waiters, task_kind, task_node>>
        /\ UNCHANGED <<monVars, simVars, scanVars>>

\* simulator.py:150-152: the killed node has exited
TaskKillWaitReturns ==
    \E t \in Tasks :
        /\ task_pc[t] = "kill_wait"
        /\ task_node[t] = "exited"
        /\ TaskEnds(t)
        /\ UNCHANGED <<lock_waiters, task_kind, task_node>>
        /\ UNCHANGED <<monVars, simVars, scanVars>>

\* The operating system: a running anvil exits (on a signal, or by itself,
\* as when it cannot bind the port)
TaskNodeExits ==
    \E t \in Tasks :
        /\ task_node[t] = "running"
        /\ task_node' = [task_node EXCEPT ![t] = "exited"]
        /\ UNCHANGED <<anvil_lock, lock_waiters, task_kind, task_pc>>
        /\ UNCHANGED <<monVars, simVars, scanVars>>

\* No task runs a simulation
TasksIdle ==
    /\ anvil_lock = 0
    /\ lock_waiters = <<>>
    /\ task_kind = [t \in Tasks |-> "none"]
    /\ task_pc = [t \in Tasks |-> "idle"]
    /\ task_node = [t \in Tasks |-> "unborn"]

\* sandbox.py:19: the lock is free; every task is a SandboxAgent simulation
AgentsInit ==
    /\ anvil_lock = 0
    /\ lock_waiters = <<>>
    /\ task_kind = [t \in Tasks |-> "agent"]
    /\ task_pc = [t \in Tasks |-> "idle"]
    /\ task_node = [t \in Tasks |-> "unborn"]

\* app.py:228-229, 247-251: task 1 is the monitor's callback _on_new_pair,
\* the others are manual scans, all submitted to the one background loop
DashboardInit ==
    /\ anvil_lock = 0
    /\ lock_waiters = <<>>
    /\ task_kind = [t \in Tasks |-> IF t = 1 THEN "on_new_pair"
                                    ELSE "manual_scan"]
    /\ task_pc = [t \in Tasks |-> "idle"]
    /\ task_node = [t \in Tasks |-> "unborn"]

AgentsNext ==
    \/ AgentCalls
    \/ AgentAcquires
    \/ AgentWaitCancelled
    \/ TaskSettleDone
    \/ TaskSettleCancelled
    \/ TaskTermWaitReturns
    \/ TaskTermWaitTimeout
    \/ TaskKillWaitReturns
    \/ TaskNodeExits

DashboardNext ==
    \/ DashboardCalls
    \/ TaskSettleDone
    \/ TaskSettleCancelled
    \/ TaskSimulateEnds
    \/ TaskTermWaitReturns
    \/ TaskTermWaitTimeout
    \/ TaskKillWaitReturns
    \/ TaskNodeExits

\* ========================================================================
\* Specifications
\* ========================================================================

vars == <<monVars, simVars, taskVars, scanVars>>

\* ------------------------------------------------------------------------
\* ScannerAgent (agents/scanner.py)
\* ------------------------------------------------------------------------

\* scanner.py:49-53 and 57-60: ScannerAgent.run({action: "stop"}) and
\* ScannerAgent.stop() both evaluate self._monitor.stop() without awaiting it.
\* MonitorService.stop is a coroutine function (monitor.py:87), so the call
\* only builds a coroutine object that is dropped: the body, which sets the
\* shutdown event, never runs.
ScannerStops(how) ==
    /\ pc \notin {"idle", "done"}
    /\ scanner_stop' = how
    /\ UNCHANGED <<monVars, simVars, taskVars>>

\* scanner.py:33: no stop has been asked of the agent
ScannerIdle == scanner_stop = "none"

\* scanner.py:43-46: run({action: "start"}) has built the monitor with the
\* agent's handler and is about to await start()
ScannerInit ==
    /\ MonInit
    /\ on_new_pair = TRUE
    /\ ScannerIdle

\* scanner.py:46: the monitor runs inside run({action: "start"}); it is
\* private to the agent, which is the only caller of its stop()
ScannerNext ==
    \/ StartInit
    \/ PollHead
    \/ GetLogs
    \/ ProcessLog
    \/ Backoff
    \/ PollSleep
    \/ \E how \in {"stop()", "run(stop)"} : ScannerStops(how)

\* monitor.py:45-51: a MonitorService that is constructed and never started
MonIdle ==
    /\ last_block = 0
    /\ reconnect_attempts = 0
    /\ shutdown_event = FALSE
    /\ on_new_pair = FALSE
    /\ pc = "idle"
    /\ current_block = 0
    /\ from_block = 0
    /\ to_block = 0
    /\ logs = <<>>
    /\ log_pos = 0
    /\ chain = <<>>
    /\ init_cursor = -1
    /\ invoked = <<>>
    /\ last_call = <<0, 0, "none", "", "">>
    /\ fail_streak = 0
    /\ streak_handler_fail = FALSE
    /\ self_shutdown = FALSE
    /\ start_head = -1
    /\ steady_head = -1

\* The monitor alone: the simulation service is constructed and not used
InitMonitor == MonInit /\ SimInit /\ TasksIdle /\ ScannerIdle

SpecMonitor == InitMonitor /\ [][MonNext]_vars

\* The monitor with every awaited RPC call, handler invocation and sleep of
\* the task running start() completing eventually; stop() may never be called
MonFairness ==
    /\ WF_vars(StartInit)
    /\ WF_vars(PollHead)
    /\ WF_vars(GetLogs)
    /\ WF_vars(ProcessLog)
    /\ WF_vars(Backoff)
    /\ WF_vars(PollSleep)

SpecMonitorFair == InitMonitor /\ [][MonNext]_vars /\ MonFairness

\* The monitor on a chain that has come to rest: from the first poll cycle on
\* the head stays at steady_head, every RPC call succeeds, every handler
\* invocation returns and stop() is not called. A chain's head does not fall,
\* so the height it rests at is not below the head start() read.
SteadyHeads == MaxInitHead..MaxHead

\* a step in which no RPC call fails and no handler raises
Faultless == fail_streak' = 0 /\ last_call'[3] \in {"none", "ok"}

SteadyInit ==
    /\ MonStart /\ steady_head \in SteadyHeads
    /\ SimInit /\ TasksIdle /\ ScannerIdle

SteadyNext ==
    \/ StartInit
    \/ PollHead /\ Faultless
    \/ GetLogs /\ Faultless
    \/ ProcessLog /\ Faultless
    \/ PollSleep

SteadyFairness ==
    /\ WF_vars(StartInit)
    /\ WF_vars(PollHead /\ Faultless)
    /\ WF_vars(GetLogs /\ Faultless)
    /\ WF_vars(ProcessLog /\ Faultless)
    /\ WF_vars(PollSleep)

SpecSteady == SteadyInit /\ [][SteadyNext]_vars /\ SteadyFairness

\* A ScannerAgent running its monitor, with every awaited call of the task
\* running start() completing eventually
InitScanner == ScannerInit /\ SimInit /\ TasksIdle

SpecScanner == InitScanner /\ [][ScannerNext]_vars /\ MonFairness

\* The simulation service alone: the monitor is not started
InitSim == MonIdle /\ SimInit /\ TasksIdle /\ ScannerIdle

SpecSim == InitSim /\ [][SimNext]_vars

\* Concurrent SandboxAgent simulations; monitor and the single service idle
InitSandboxAgents == MonIdle /\ SimInit /\ AgentsInit /\ ScannerIdle

SpecSandboxAgents == InitSandboxAgents /\ [][AgentsNext]_vars

\* The dashboard's simulations
InitDashboard == MonIdle /\ SimInit /\ DashboardInit /\ ScannerIdle

SpecDashboard == InitDashboard /\ [][DashboardNext]_vars

\* ------------------------------------------------------------------------
\* Properties of the monitor
\* ------------------------------------------------------------------------

\* A well-formed PairCreated log one side of which is the wrapped-native asset
WethPairLog(log) ==
    /\ Len(log.topics) >= 3
    /\ log.topics[2] = "weth" \/ log.topics[3] = "weth"

\* The step awaits the handler for logs[log_pos]
HandlerInvokedStep ==
    /\ pc = "dispatch"
    /\ Dispatches(logs[log_pos])
    /\ <<pc, log_pos>>' # <<pc, log_pos>>

\* <<b1, i1>> is at or before <<b2, i2>> in block order, then log order
AtOrBefore(b1, i1, b2, i2) == b1 < b2 \/ (b1 = b2 /\ i1 <= i2)

\* C2: once start() has initialised the cursor, no step of the monitor
\* (successful, no-op or failing cycle, head rising or falling) decreases
\* _last_block.
C2_CursorNeverDecreases ==
    [][init_cursor >= 0 => last_block' >= last_block]_vars

\* C2 witness: the cursor was initialised and a later cycle advanced it.
C2_Witness ==
    /\ init_cursor >= 0
    /\ last_block > init_cursor
    /\ pc = "sleep"

\* C3: with a handler registered, every well-formed WETH PairCreated log of
\* a block b, initial cursor < b <= _last_block, has had the handler invoked
\* for it at least once.
C3_NoTokenSkipped ==
    (on_new_pair /\ init_cursor >= 0) =>
        \A i \in 1..Len(chain) :
            (/\ init_cursor < chain[i].block
             /\ chain[i].block <= last_block
             /\ WethPairLog(chain[i])) => invoked[i] >= 1

\* C3 witness: the cursor has passed a WETH log after a cycle that failed in
\* the handler made the window be retried.
C3_Witness ==
    /\ on_new_pair
    /\ \E i \in 1..Len(chain) :
         /\ init_cursor < chain[i].block
         /\ chain[i].block <= last_block
         /\ WethPairLog(chain[i])
         /\ invoked[i] = 2

\* C4: an exception raised by the handler, of any type, is not propagated
\* into the polling loop: the loop goes on to the remaining logs, or the
\* window is done and the cursor is its upper bound, and the reconnect
\* counter is not incremented.
C4_HandlerErrorIsolated ==
    [][(HandlerInvokedStep /\ last_call'[3] # "ok") =>
          /\ reconnect_attempts' <= reconnect_attempts
          /\ \/ pc' = "dispatch" /\ log_pos' = log_pos + 1
             \/ pc' = "sleep" /\ log_pos = Len(logs) /\ last_block' = to_block]_vars

\* C6: a streak of max_reconnect_attempts + 1 failing cycles is the longest
\* there is; at its end the monitor has set its shutdown flag and is neither
\* in a backoff sleep nor has an RPC call or a dispatch in flight, then or
\* later; a shorter streak has not made the monitor signal shutdown.
C6_ReconnectCeiling ==
    /\ fail_streak <= max_reconnect_attempts + 1
    /\ fail_streak = max_reconnect_attempts + 1 =>
          /\ self_shutdown
          /\ shutdown_event
          /\ pc \in {"sleep", "done"}
    /\ fail_streak <= max_reconnect_attempts => ~self_shutdown

\* C6 witness: the monitor has stopped itself after the full streak.
C6_Witness ==
    /\ fail_streak = max_reconnect_attempts + 1
    /\ self_shutdown
    /\ pc = "done"

\* C7: a log query in flight has fromBlock = cursor + 1 and
\* toBlock = min(head, fromBlock + 9): at most 10 blocks, never empty.
C7_WindowBound ==
    pc = "get_logs" =>
        /\ from_block = last_block + 1
        /\ to_block = Min(current_block, from_block + 9)
        /\ to_block - from_block + 1 <= 10
        /\ to_block >= from_block

\* C7 witness: a query in flight whose window is cut short of the head.
C7_Witness ==
    /\ pc = "get_logs"
    /\ current_block > from_block + 9
    /\ to_block = from_block + 9

\* C8: no PairCreated log has caused more than one handler invocation.
C8_HandlerOncePerLog ==
    \A i \in 1..Len(chain) : invoked[i] <= 1

\* C9: every handler invocation is for a log at or after the log of the
\* invocation before it, in block order and within a block in log order.
C9_DispatchInOrder ==
    [][HandlerInvokedStep =>
          AtOrBefore(last_call[1], last_call[2],
                     last_call'[1], last_call'[2])]_vars

\* C10: the monitor has set its own shutdown flag only after more than
\* max_reconnect_attempts consecutive failures all of which were RPC
\* failures; a failing handler has no part in it.
C10_ShutdownOnlyOnTransportFailure ==
    self_shutdown =>
        /\ fail_streak > max_reconnect_attempts
        /\ ~streak_handler_fail

\* C11: start() has returned only with the shutdown flag set; the flag, once
\* set (by stop(), which repeated calls do not undo, or by the monitor), is
\* never cleared; and once it is set start() eventually returns, every RPC
\* call, handler invocation and sleep in flight completing eventually.
C11_StartBlocksUntilStop ==
    /\ [](pc = "done" => shutdown_event)
    /\ [][shutdown_event => shutdown_event']_vars
    /\ (shutdown_event ~> pc = "done")

\* C11 witness: stop() was called while a dispatch was in flight, the
\* handler had run, and start() has returned.
C11_Witness ==
    /\ pc = "done"
    /\ shutdown_event
    /\ ~self_shutdown
    /\ last_call[3] # "none"
    /\ last_block > init_cursor

\* ------------------------------------------------------------------------
\* Properties of the simulation service
\* ------------------------------------------------------------------------

\* C1: when a use of the service as a context manager is over, whatever the
\* exit path, no anvil process it started is running.
C1_NoNodeLeftRunning ==
    sim_pc = "closed" => \A p \in 1..MaxUses : node[p] # "running"

\* C5: every result returned has is_honeypot = (can_buy and not can_sell),
\* and a result of the buy-failure path has can_sell false.
C5_HoneypotVerdict ==
    \A i \in 1..Len(results) :
        /\ results[i].is_honeypot = (results[i].can_buy /\ ~results[i].can_sell)
        /\ results[i].path = "buy_failed" => ~results[i].can_sell

\* C5 witness: a simulation in which an exception followed a successful buy
\* has returned the verdict computed at the end of simulate_buy_sell.
C5_Witness ==
    \E i \in 1..Len(results) :
        /\ results[i].path = "final"
        /\ results[i].error_message # "None"
        /\ results[i].can_buy
        /\ results[i].is_honeypot

\* The positions of a running simulate_buy_sell
SimSteps ==
    {"sim_symbol", "sim_decimals", "sim_estimate", "sim_buy", "sim_balance",
     "sim_approve", "sim_estimate_sell", "sim_eth_before", "sim_sell",
     "sim_eth_after"}

\* The tax the formula max(0, (expected - actual) / expected * 100), clamped
\* to [0,100], gives in whole per cent is t
IsTaxOf(t, expected, actual) ==
    /\ 0 <= t /\ t <= 100
    /\ actual >= expected => t = 0
    /\ (actual < expected /\ actual >= 0) =>
          /\ t * expected <= (expected - actual) * 100
          /\ (expected - actual) * 100 < (t + 1) * expected
    /\ actual < 0 => t = 100

\* C12: a call of simulate_buy_sell raises AnvilProcessError, and returns
\* nothing, exactly when the service holds no node handle; a call that has
\* started leaves its steps, whatever a probe or transaction did (an
\* exception included, cancellation of the task apart), by returning exactly
\* one valid SimulationResult to its caller and raising nothing.
C12_SimulateRaisesOnlyUnforked ==
    [][/\ (~simulated /\ simulated') =>
             IF anvil_process = 0
             THEN /\ raised' = "AnvilProcessError"
                  /\ sim_pc' \notin SimSteps
                  /\ results' = <<>>
             ELSE /\ raised' = "none"
                  /\ sim_pc' \in SimSteps
       /\ (sim_pc \in SimSteps /\ sim_pc' \notin SimSteps
             /\ raised' # "CancelledError") =>
             /\ raised' = "none"
             /\ Len(results') = 1
             /\ ValidResult(results'[1])
             /\ sim_pc' = sim_return]_vars

\* C12 witness: an exception raised after a successful buy was turned into
\* the result the call returned to the with block.
C12_Witness ==
    /\ sim_pc = "body"
    /\ raised = "none"
    /\ Len(results) = 1
    /\ results[1].error_message = "exception"
    /\ results[1].can_buy
    /\ sent = <<"buy", "approve", "sell">>

\* C13: in every result returned, buy_tax_pct and sell_tax_pct are in
\* [0,100].
C13_TaxesInRange ==
    \A i \in 1..Len(results) :
        /\ 0 <= results[i].buy_tax_pct /\ results[i].buy_tax_pct <= 100
        /\ 0 <= results[i].sell_tax_pct /\ results[i].sell_tax_pct <= 100

\* C13 witness: a final result of a simulation that received more tokens
\* than expected and whose ETH balance fell over the sell.
C13_Witness ==
    /\ Len(results) = 1
    /\ results[1].path = "final"
    /\ results[1].can_sell
    /\ loc.actual_tokens > loc.expected_tokens
    /\ loc.expected_tokens > 0
    /\ loc.expected_eth > 0
    /\ loc.eth_after < loc.eth_before

\* C14: the receipt _cast_send returned says success only if the CLI exited
\* zero and printed a receipt whose status is 0x1.
C14_SuccessOnlyOnStatusFlag ==
    last_send.receipt.success =>
        /\ last_send.outcome.exit = "zero"
        /\ last_send.outcome.status = "0x1"

\* C17: in a returned result with can_buy, of a simulation that expected
\* and received a positive number of tokens, buy_tax_pct is the formula's
\* value; 1000 expected and 950 received give 5.
C17_BuyTaxFormula ==
    (/\ Len(results) = 1
     /\ results[1].can_buy
     /\ loc.expected_tokens > 0
     /\ loc.actual_tokens > 0) =>
        /\ IsTaxOf(results[1].buy_tax_pct, loc.expected_tokens,
                   loc.actual_tokens)
        /\ (loc.expected_tokens = 1000 /\ loc.actual_tokens = 950) =>
              results[1].buy_tax_pct = 5

\* C17 witness: a honeypot result of a failed sell after 950 of the 1000
\* expected tokens arrived.
C17_Witness ==
    /\ Len(results) = 1
    /\ results[1].path = "sell_failed"
    /\ results[1].is_honeypot
    /\ loc.expected_tokens = 1000
    /\ loc.actual_tokens = 950
    /\ results[1].buy_tax_pct = 5

\* C18: an approve is sent only with a non-zero token balance; a simulation
\* that bought, read a balance of 0 and returned (no exception) has
\* returned can_buy, not can_sell, is_honeypot, buy_tax_pct 100, and has sent
\* the buy alone.
C18_ZeroBalanceStops ==
    /\ (\E k \in 1..Len(sent) : sent[k] = "approve") => loc.actual_tokens # 0
    /\ (/\ Len(results) = 1
        /\ loc.can_buy
        /\ loc.actual_tokens = 0
        /\ results[1].error_message = "None") =>
           /\ results[1].can_buy
           /\ ~results[1].can_sell
           /\ results[1].is_honeypot
           /\ results[1].buy_tax_pct = 100
           /\ sent = <<"buy">>

\* C18 witness: the buy succeeded by its receipt and the balance read was 0.
C18_Witness ==
    /\ Len(results) = 1
    /\ loc.can_buy
    /\ loc.actual_tokens = 0
    /\ results[1].error_message = "None"
    /\ last_send.outcome.status = "0x1"
    /\ sent = <<"buy">>

\* C19: a simulation whose approve receipt said failure has returned
\* can_buy, not can_sell, is_honeypot, has sent no sell, and its
\* revert_reason is the reason of the approve receipt.
C19_ApproveFailureReason ==
    (/\ Len(results) = 1
     /\ sent = <<"buy", "approve">>
     /\ ~last_send.receipt.success) =>
        /\ results[1].can_buy
        /\ ~results[1].can_sell
        /\ results[1].is_honeypot
        /\ results[1].revert_reason = last_send.receipt.revert_reason

\* C20: in the final result of a simulation whose sell succeeded (no
\* exception), with a positive expected amount, sell_tax_pct is the formula's
\* value for the balance delta eth_after - eth_before, 100 when the delta is
\* zero or negative.
C20_SellTaxFormula ==
    (/\ Len(results) = 1
     /\ results[1].can_sell
     /\ results[1].error_message = "None"
     /\ loc.expected_eth > 0) =>
        IsTaxOf(results[1].sell_tax_pct, loc.expected_eth,
                loc.eth_after - loc.eth_before)

\* ------------------------------------------------------------------------
\* Properties of concurrent simulations
\* ------------------------------------------------------------------------

\* Task t is inside `async with SimulationService()`
InLifetime(t) ==
    task_pc[t] \in {"settle", "simulate", "term_wait", "kill_wait"}

\* C15: at no time are two SandboxAgent simulations between the launch of
\* their node and its termination: no two tasks are inside their service's
\* lifetime or have a node running at once.
C15_OneAgentNodeAtATime ==
    \A t1, t2 \in Tasks :
        (/\ t1 # t2
         /\ InLifetime(t1) \/ task_node[t1] = "running") =>
            ~(InLifetime(t2) \/ task_node[t2] = "running")

\* C16: the simulation started by the monitor callback _on_new_pair and one
\* started by _manual_scan are never inside their sandbox lifetimes at once.
C16_DashboardSerialised ==
    \A t1, t2 \in Tasks :
        (/\ task_kind[t1] = "on_new_pair"
         /\ task_kind[t2] = "manual_scan") =>
            ~(InLifetime(t1) /\ InLifetime(t2))


\* ------------------------------------------------------------------------
\* Token selection, no-op cycles and the reconnect counter
\* ------------------------------------------------------------------------

\* The step is one _process_log call: it moves past logs[log_pos] or raises
ProcessLogStep ==
    /\ pc = "dispatch"
    /\ <<pc, log_pos>>' # <<pc, log_pos>>

\* The indexed topic is the 32-byte padding of the wrapped-native address
IsWethTopic(topic) == topic = "weth"

\* C21: _process_log of a PairCreated log with two token topics does not
\* invoke the handler when neither token is the wrapped-native asset, and,
\* when exactly one is and a handler is registered, invokes it for this log
\* with a Token whose address is the other token of the pair.
C21_HandlerOnlyForWethPairs ==
    [][ProcessLogStep /\ Len(logs[log_pos].topics) >= 3 =>
         LET log == logs[log_pos]
             w0  == IsWethTopic(log.topics[2])
             w1  == IsWethTopic(log.topics[3])
         IN  /\ (~w0 /\ ~w1) =>
                   (invoked' = invoked /\ last_call' = last_call)
             /\ (on_new_pair /\ w0 /\ ~w1) =>
                   /\ <<last_call'[1], last_call'[2]>> = <<log.block, log.index>>
                   /\ last_call'[4] = TopicAddress(log.topics[3])
                   /\ invoked'[ChainPos(log)] >= 1
             /\ (on_new_pair /\ w1 /\ ~w0) =>
                   /\ <<last_call'[1], last_call'[2]>> = <<log.block, log.index>>
                   /\ last_call'[4] = TopicAddress(log.topics[2])
                   /\ invoked'[ChainPos(log)] >= 1]_vars

\* C21 witness: a pair without a WETH side was passed over without a call and
\* the handler was then given token0 of a pair whose token1 is WETH.
C21_Witness ==
    /\ Len(chain) = 3
    /\ ~IsWethTopic(chain[2].topics[2]) /\ ~IsWethTopic(chain[2].topics[3])
    /\ invoked[2] = 0
    /\ IsWethTopic(chain[3].topics[3])
    /\ invoked[3] >= 1
    /\ last_call[4] = "0xbbbb"
    /\ last_block >= 2

\* C22: a poll cycle whose head read is at or below the cursor issues no log
\* query, invokes no handler and leaves the cursor as it is: a log query is
\* in flight only for a head above the cursor, and a head read that neither
\* fails nor starts a query ends the cycle with cursor, window and handler
\* record untouched.
C22_NoOpCycle ==
    /\ [](pc \in {"get_logs", "dispatch"} => current_block > last_block)
    /\ [][(pc = "head" /\ pc' \notin {"head", "get_logs"}
                       /\ fail_streak' <= fail_streak) =>
            /\ pc' = "sleep"
            /\ last_block' = last_block
            /\ logs' = <<>>
            /\ invoked' = invoked
            /\ last_call' = last_call]_vars

\* C22 witness: a cycle has ended without failure and with the cursor still
\* where start() put it, so its head read was not above the cursor.
C22_Witness ==
    /\ pc = "sleep"
    /\ init_cursor >= 0
    /\ last_block = init_cursor
    /\ fail_streak = 0
    /\ reconnect_attempts = 0
    /\ ~shutdown_event

\* The step ends a poll cycle that raised no exception
CycleSucceedsStep ==
    /\ pc \in {"head", "get_logs", "dispatch"}
    /\ pc' = "sleep"
    /\ self_shutdown' = self_shutdown

\* C23: every poll cycle that completes without an exception, the no-op cycle
\* included, leaves _reconnect_attempts at zero, so the counter is the number
\* of failing cycles since the last successful one, and the monitor shuts
\* itself down only on a run of more than max_reconnect_attempts failing
\* cycles in a row.
C23_CounterResetOnSuccess ==
    /\ [][CycleSucceedsStep => reconnect_attempts' = 0]_vars
    /\ [](reconnect_attempts = fail_streak)
    /\ [](self_shutdown => fail_streak > max_reconnect_attempts)

\* C23 witness: a window failed in dispatch, was dispatched again and then
\* completed: the counter is back at zero after a failure.
C23_Witness ==
    /\ \E i \in 1..Len(chain) : invoked[i] = 2 /\ chain[i].block <= last_block
    /\ pc = "sleep"
    /\ reconnect_attempts = 0
    /\ ~shutdown_event

\* ------------------------------------------------------------------------
\* The cursor, start() and stop()
\* ------------------------------------------------------------------------

\* C24: start() sets the cursor to the chain head on entry, so no log query
\* issued afterwards covers a block at or below the head the chain had when
\* start() was entered.
C24_NoQueryAtOrBelowStartHead ==
    /\ (init_cursor >= 0 => init_cursor = start_head)
    /\ (pc \in {"get_logs", "dispatch"} => from_block > start_head)

\* C25: once ScannerAgent.stop() or run({action: "stop"}) has been called
\* while the agent's monitor is running, the monitor's shutdown flag is set
\* (and the pending run({action: "start"}) then returns).
C25_ScannerStopSetsFlag ==
    scanner_stop # "none" => shutdown_event

\* C26: after start() has initialised it, the cursor changes only in the
\* step that ends a poll cycle without exception, only to that cycle's
\* to_block, and only when no fetched log is left to process; a cycle that
\* raises leaves the cursor as it is, and every log query starts at
\* cursor + 1, so the query after a failed cycle starts at the same block.
C26_CursorMovesAtCycleEnd ==
    /\ [][(init_cursor >= 0 /\ last_block' # last_block) =>
            /\ last_block' = to_block
            /\ pc' = "sleep"
            /\ fail_streak' = 0
            /\ \/ pc = "dispatch" /\ log_pos = Len(logs)
               \/ pc = "get_logs"
                    /\ \A i \in 1..Len(chain) :
                          chain[i].block < from_block \/ chain[i].block > to_block]_vars
    /\ [][fail_streak' > fail_streak => last_block' = last_block]_vars
    /\ [](pc = "get_logs" => from_block = last_block + 1)

\* C26 witness: a window whose dispatch raised is being queried again from
\* the same from_block.
C26_Witness ==
    /\ pc = "get_logs"
    /\ fail_streak >= 1
    /\ streak_handler_fail
    /\ \E i \in 1..Len(chain) :
         /\ invoked[i] >= 1
         /\ from_block <= chain[i].block
         /\ chain[i].block <= to_block

\* C28: setting the shutdown flag does not interrupt a cycle in flight.  With
\* the flag set, a log query that returns still hands every log of its window
\* to the dispatch loop, a _process_log call that returns still goes on to
\* the next fetched log and, after the last one, the cursor advances to
\* to_block; once that cycle is over (or its backoff has begun) there is no
\* further head read, log query or handler invocation.
C28_StopLetsCycleFinish ==
    /\ [][(shutdown_event /\ pc = "get_logs" /\ pc' # pc
                          /\ fail_streak' = fail_streak) =>
            LET got == GetLogsResult(chain, from_block, to_block)
            IN  IF got = <<>>
                THEN pc' = "sleep" /\ last_block' = to_block
                ELSE pc' = "dispatch" /\ logs' = got /\ log_pos' = 1]_vars
    /\ [][(shutdown_event /\ ProcessLogStep /\ fail_streak' = fail_streak) =>
            IF log_pos < Len(logs)
            THEN pc' = "dispatch" /\ log_pos' = log_pos + 1 /\ logs' = logs
            ELSE pc' = "sleep" /\ last_block' = to_block]_vars
    /\ [][(shutdown_event /\ pc \in {"backoff", "sleep", "done"}) =>
            /\ pc' \in {"sleep", "done"}
            /\ invoked' = invoked
            /\ last_block' = last_block]_vars

\* C28 witness: stop() has set the flag and a window is being dispatched
\* with logs still to come.
C28_Witness ==
    /\ shutdown_event
    /\ ~self_shutdown
    /\ pc = "dispatch"
    /\ log_pos >= 2
    /\ log_pos < Len(logs)

\* ------------------------------------------------------------------------
\* The forked node of one SimulationService
\* ------------------------------------------------------------------------

\* The nodes of the service that are running
RunningNodes == {p \in 1..MaxUses : node[p] = "running"}

\* kill_anvil is waiting for the node to exit
KillPcs == {"term_wait", "kill_wait"}

\* C29: whatever the sequence of fork_mainnet, kill_anvil, __aenter__ and
\* __aexit__ calls on a SimulationService, at most one node it launched is
\* running, and that node is the one its handle refers to; a fork_mainnet
\* that finds a handle launches its node only once the node of that handle
\* has exited.
C29_AtMostOneNode ==
    /\ Cardinality(RunningNodes) <= 1
    /\ \A p \in RunningNodes : anvil_process = p

\* C29 witness: fork_mainnet has found the handle of a node that is still
\* running and is inside kill_anvil, its own node not yet launched.
C29_Witness ==
    /\ sim_pc \in KillPcs
    /\ kill_return = "fork"
    /\ node[anvil_process] = "running"
    /\ node[uses] = "unborn"

\* C30: kill_anvil sends the forced kill only from its wait after the
\* graceful request, when that wait has timed out with the node still
\* running; it is left, by either route, only when the node has exited, and
\* with the handle given up; and a kill_anvil call that finds no handle
\* changes nothing and waits for nothing.
C30_KillAnvilOrder ==
    /\ [][(sim_pc' = "kill_wait" /\ sim_pc # "kill_wait") =>
            (sim_pc = "term_wait" /\ node[anvil_process] = "running")]_vars
    /\ [][(sim_pc \in KillPcs /\ sim_pc' \notin KillPcs) =>
            /\ node[anvil_process] = "exited"
            /\ anvil_process' # anvil_process
            /\ kill_return \in {"exit", "body"} => anvil_process' = 0]_vars
    /\ [][(anvil_process # 0 /\ anvil_process' # anvil_process) =>
            node[anvil_process] = "exited"]_vars
    /\ [][(anvil_process = 0 /\ sim_pc \in {"body", "exit"}) =>
            /\ sim_pc' \notin KillPcs
            /\ anvil_process' = 0
            /\ node' = node]_vars

\* C30 witness: the with block called kill_anvil, which has returned with the
\* node exited and the handle cleared; the kill_anvil of __aexit__ then found
\* no handle.
C30_Witness ==
    /\ sim_pc = "closed"
    /\ kill_return = "body"
    /\ anvil_process = 0
    /\ raised = "none"
    /\ \A p \in 1..MaxUses : node[p] # "running"
    /\ node[uses] = "exited"

\* ------------------------------------------------------------------------
\* The transactions of one simulate_buy_sell run
\* ------------------------------------------------------------------------

\* The transaction of a cast send went through: the CLI exited zero and the
\* receipt it printed has status 0x1
Succeeded(o) == o.exit = "zero" /\ o.status = "0x1"

\* C27: the transactions of one simulate_buy_sell run are sent in the order
\* buy, approve, sell, each at most once, and each after the first only when
\* the one before it has completed successfully: no approve or sell after a
\* failed buy, no sell after a failed approve.
C27_SendsInOrder ==
    /\ [](sent \in {<<>>, <<"buy">>, <<"buy", "approve">>,
                    <<"buy", "approve", "sell">>})
    /\ [][(sent' # sent /\ sent' # <<>>) =>
            /\ Len(sent') = Len(sent) + 1
            /\ sent # <<>> => Succeeded(last_send.outcome)]_vars

\* ------------------------------------------------------------------------
\* Failures inside simulate_buy_sell
\* ------------------------------------------------------------------------

\* The transaction most recently submitted by the run
LastSent == sent[Len(sent)]

\* C31: a cast send that timed out ends the run at once, as a failure of its
\* step: the run has returned a result, no transaction was submitted twice
\* or after the timed-out one, and the result has can_buy false for the buy
\* and can_sell false for the approve and the sell.
C31_TimeoutIsFailure ==
    last_send.outcome.exit = "timeout" =>
        /\ sim_pc \notin SimSteps
        /\ Len(results) = 1
        /\ sent \in {<<"buy">>, <<"buy", "approve">>,
                     <<"buy", "approve", "sell">>}
        /\ LastSent = "buy" => ~results[1].can_buy
        /\ LastSent \in {"approve", "sell"} => ~results[1].can_sell
        /\ results[1].error_message = "None"

\* C31 witness: the sell timed out after a buy and an approve that went
\* through.
C31_Witness ==
    /\ last_send.outcome.exit = "timeout"
    /\ sent = <<"buy", "approve", "sell">>
    /\ Len(results) = 1
    /\ results[1].can_buy
    /\ ~results[1].can_sell

\* C32: a result that carries the error_message of an exception raised
\* during the run carries no verdict: it does not say honeypot, and no
\* transaction was sent after the exception.
C32_ExceptionGivesNoVerdict ==
    \A i \in 1..Len(results) :
        results[i].error_message = "exception" =>
            /\ ~results[i].is_honeypot
            /\ sim_pc \notin SimSteps

\* C34: when an exception is raised after the buy has succeeded and before
\* the sell is recorded as successful, the result returned has error_message
\* set, can_buy true, can_sell false and is_honeypot true.
C34_FaultAfterBuyIsHoneypot ==
    /\ [][(/\ sim_pc \in SimSteps
           /\ Len(results') = 1
           /\ results'[1].error_message = "exception"
           /\ loc.can_buy /\ ~loc.can_sell) =>
            /\ results'[1].can_buy
            /\ ~results'[1].can_sell
            /\ results'[1].is_honeypot
            /\ results'[1].buy_gas = loc.buy_gas
            /\ sim_pc' = sim_return]_vars
    /\ [](\A i \in 1..Len(results) :
            (results[i].error_message = "exception" /\ results[i].is_honeypot)
                => (loc.can_buy /\ ~loc.can_sell))

\* C34 witness: the native-balance probe before the sell raised; the buy and
\* the approve had gone through and no sell was sent.
C34_Witness ==
    /\ Len(results) = 1
    /\ results[1].error_message = "exception"
    /\ results[1].is_honeypot
    /\ sent = <<"buy", "approve">>
    /\ last_send.receipt.success
    /\ loc.expected_eth > 0

\* ------------------------------------------------------------------------
\* Malformed logs, progress and the failed initial head read
\* ------------------------------------------------------------------------

\* A PairCreated log that lacks a token topic or whose data cannot be
\* decoded into a pair address
Malformed(log) == Len(log.topics) < 3 \/ log.data # "pair"

\* C33: _process_log skips a malformed PairCreated log: the handler is not
\* invoked for it, the loop goes on to the next fetched log or, after the
\* last one, the cursor advances to to_block, and the reconnect counter is
\* not incremented.
C33_MalformedLogSkipped ==
    [][(ProcessLogStep /\ Malformed(logs[log_pos])) =>
         /\ invoked' = invoked
         /\ last_call' = last_call
         /\ reconnect_attempts' <= reconnect_attempts
         /\ IF log_pos < Len(logs)
            THEN pc' = "dispatch" /\ log_pos' = log_pos + 1
                                  /\ last_block' = last_block
            ELSE pc' = "sleep" /\ last_block' = to_block]_vars

\* The step of simulate_buy_sell that reads the balance after the buy
BalanceStep == sim_pc = "sim_balance" /\ loc'.balance_out # "unread"

\* The balance probe ended without a number: cast call timed out or exited
\* non-zero (empty output), or printed text that holds no integer
ProbeFailed(l) == l.balance_out \in {"empty", "junk"}

\* C35: when the balance probe after a successful buy times out, exits
\* non-zero or prints unparsable output, the balance is taken as 0 and the
\* run returns the zero-balance verdict (can_buy, not can_sell, is_honeypot,
\* buy tax 100) without error_message and with the buy as the only
\* transaction sent; a probe that really answered 0 returns the same result,
\* which depends on the buy's gas alone.
C35_ProbeFailureIsZeroBalance ==
    [][BalanceStep =>
         /\ ProbeFailed(loc') =>
               /\ loc'.actual_tokens = 0
               /\ sim_pc' \notin SimSteps
               /\ sent' = <<"buy">>
               /\ Len(results') = 1
               /\ results'[1].can_buy /\ ~results'[1].can_sell
               /\ results'[1].is_honeypot
               /\ results'[1].buy_tax_pct = 100
               /\ results'[1].error_message = "None"
         /\ loc'.actual_tokens = 0 =>
               results' = <<[DefaultResult EXCEPT
                               !.can_buy = TRUE, !.is_honeypot = TRUE,
                               !.buy_gas = loc.buy_gas, !.buy_tax_pct = 100,
                               !.revert_reason = "balance 0 after buy",
                               !.path = "zero_balance"]>>]_vars

C35_Witness ==
    /\ loc.balance_out = "empty"
    /\ Len(results) = 1
    /\ results[1].is_honeypot
    /\ results[1].buy_gas > 0

\* The step of simulate_buy_sell that reads the buy estimate
EstimateStep == sim_pc = "sim_estimate" /\ loc'.amounts_out.kind # "unread"

\* The getAmountsOut probe gave no usable amount: it timed out or exited
\* non-zero (empty output), or its last element parses to 0
EstimateUnavailable(l) == l.amounts_out.kind = "empty" \/ l.amounts_out.n = 0

\* C36: when the buy estimate is unavailable or zero, the run returns at
\* once with can_buy, can_sell and is_honeypot all false, error_message set
\* and no revert_reason, and no transaction has been sent to the fork.
C36_NoEstimateNoTransaction ==
    [][(EstimateStep /\ EstimateUnavailable(loc')) =>
         /\ sim_pc' \notin SimSteps
         /\ sent' = <<>>
         /\ last_send' = NoSend
         /\ Len(results') = 1
         /\ ~results'[1].can_buy /\ ~results'[1].can_sell
         /\ ~results'[1].is_honeypot
         /\ results'[1].error_message # "None"
         /\ results'[1].revert_reason = "None"]_vars

C36_Witness ==
    /\ loc.amounts_out = Out("list", 0)
    /\ Len(results) = 1
    /\ results[1].path = "estimate_failed"
    /\ sent = <<>>

\* C37: every result simulate_buy_sell returns is coherent: can_sell only
\* with can_buy, a non-zero sell_gas only with can_sell, a non-zero buy_gas
\* only with can_buy, and a revert_reason only without can_sell.
C37_ResultCoherent ==
    \A i \in 1..Len(results) :
        /\ results[i].can_sell => results[i].can_buy
        /\ results[i].sell_gas # 0 => results[i].can_sell
        /\ results[i].buy_gas # 0 => results[i].can_buy
        /\ results[i].revert_reason # "None" => ~results[i].can_sell

C37_Witness ==
    /\ Len(results) = 1
    /\ results[1].can_sell
    /\ results[1].sell_gas # 0
    /\ results[1].buy_gas # 0

\* fork_mainnet raises AnvilProcessError: on entry or after killing the
\* previous node (the anvil binary is missing), or after the settle sleep
\* (the node has exited)
ForkFails ==
    /\ raised' = "AnvilProcessError"
    /\ sim_pc' = "closed"
    /\ \/ sim_pc = "settle"
       \/ uses' = uses + 1
       \/ sim_pc \in {"term_wait", "kill_wait"} /\ kill_return = "fork"

\* simulate_buy_sell is called on the instance whose fork_mainnet failed
SimulateAfterFailedFork ==
    /\ sim_pc = "closed" /\ raised = "AnvilProcessError"
    /\ ~simulated /\ simulated'

\* C38: when fork_mainnet raises AnvilProcessError because the node exited
\* during the settle sleep, the handle of the dead node is kept, and a
\* following simulate_buy_sell on the instance starts probing instead of
\* raising the startup error; the handle is missing after a failed
\* fork_mainnet exactly when the failure was the missing binary.
C38_DeadHandleKept ==
    [][/\ ForkFails =>
            /\ sim_pc = "settle" =>
                  /\ anvil_process' = anvil_process
                  /\ anvil_process' # 0
                  /\ node'[anvil_process'] = "exited"
            /\ sim_pc # "settle" => anvil_process' = 0
       /\ SimulateAfterFailedFork =>
            IF anvil_process # 0
            THEN raised' = "none" /\ sim_pc' = "sim_symbol"
            ELSE raised' = "AnvilProcessError" /\ sim_pc' = "closed"]_vars

C38_Witness ==
    /\ sim_pc = "closed" /\ raised = "AnvilProcessError" /\ ~simulated
    /\ anvil_process = uses /\ uses = MaxUses
    /\ node[anvil_process] = "exited"

\* The step in which start() initialises the cursor
StartStep == pc = "start" /\ init_cursor' >= 0

\* start() has run and its head read failed while the head was above 0
StartReadFailed == init_cursor = 0 /\ start_head > 0

\* C40: a failed head read at the start of start() neither stops the monitor
\* nor counts as a reconnect attempt: the cursor is set to 0 and the loop is
\* entered, and the queries that follow run from the block after the cursor,
\* the first from block 1, over at most MAX_BLOCK_RANGE blocks each.
C40_FailedStartReadScansFromGenesis ==
    /\ [][(StartStep /\ StartReadFailed') =>
            /\ last_block' = 0
            /\ reconnect_attempts' = 0
            /\ fail_streak' = 0
            /\ shutdown_event' = shutdown_event /\ ~self_shutdown'
            /\ pc' = (IF shutdown_event THEN "done" ELSE "head")]_vars
    /\ []((StartReadFailed /\ pc \in {"get_logs", "dispatch"}) =>
            /\ from_block = last_block + 1
            /\ from_block <= to_block
            /\ to_block <= last_block + MAX_BLOCK_RANGE
            /\ to_block <= current_block)
    /\ [][(StartReadFailed /\ last_block = 0 /\ pc = "head"
                           /\ pc' = "get_logs") => from_block' = 1]_vars

\* C40 witness: the read failed at head 2 and the first query starts at
\* block 1, below the head start() was entered at.
C40_Witness ==
    /\ StartReadFailed /\ start_head = MaxInitHead
    /\ pc = "get_logs" /\ from_block = 1 /\ last_block = 0
    /\ reconnect_attempts = 0

====
